---- MODULE Spec2Model ----
(***************************************************************************)
(* A model of the cross-exchange arbitrage bot                             *)
(* (binance_kucoin_gateio_mexc_arbitrage.py): network-name normalisation,  *)
(* the Analyzer's transfer-network selector, the Rebalancer's deposit      *)
(* address acquisition and cross-venue transfer bookkeeping, and the       *)
(* Executor's buy / transfer / sell state machine.                         *)
(*                                                                         *)
(* Strings that the program inspects character by character (network      *)
(* names) are sequences of one-character strings; all other strings are    *)
(* TLA+ strings.                                                           *)
(***************************************************************************)
EXTENDS Integers, Sequences, FiniteSets, TLC

(***************************************************************************)
(* Character-level string helpers (Python str methods and re.sub calls     *)
(* used by Config.normalize_network_name_for_config).                      *)
(***************************************************************************)
LowerCase == <<"a","b","c","d","e","f","g","h","i","j","k","l","m",
               "n","o","p","q","r","s","t","u","v","w","x","y","z">>

UpperCase == <<"A","B","C","D","E","F","G","H","I","J","K","L","M",
               "N","O","P","Q","R","S","T","U","V","W","X","Y","Z">>

\* str.upper() on one character
ToUpper(c) ==
    IF \E i \in DOMAIN LowerCase : LowerCase[i] = c
    THEN UpperCase[CHOOSE i \in DOMAIN LowerCase : LowerCase[i] = c]
    ELSE c

\* str.upper()
Upper(s) == [i \in 1..Len(s) |-> ToUpper(s[i])]

\* index of the first occurrence of character c in s, 0 when absent
FirstIdx(s, c) ==
    IF \E i \in 1..Len(s) : s[i] = c
    THEN CHOOSE i \in 1..Len(s) : s[i] = c /\ \A j \in 1..(i-1) : s[j] # c
    ELSE 0

\* index of the last occurrence of character c in s, 0 when absent
LastIdx(s, c) ==
    IF \E i \in 1..Len(s) : s[i] = c
    THEN CHOOSE i \in 1..Len(s) : s[i] = c /\ \A j \in (i+1)..Len(s) : s[j] # c
    ELSE 0

\* str.split('/')[0]
SplitSlashFirst(s) ==
    IF FirstIdx(s, "/") = 0 THEN s ELSE SubSeq(s, 1, FirstIdx(s, "/") - 1)

\* str.strip()
Strip(s) ==
    LET keep == {i \in 1..Len(s) : s[i] # " "}
    IN  IF keep = {} THEN <<>>
        ELSE SubSeq(s, CHOOSE i \in keep : \A j \in keep : i <= j,
                       CHOOSE i \in keep : \A j \in keep : i >= j)

\* str.replace(a, b) for single characters
ReplaceChar(s, a, b) == [i \in 1..Len(s) |-> IF s[i] = a THEN b ELSE s[i]]

\* str.replace(a, '') for a single character
RECURSIVE RemoveChar(_, _)
RemoveChar(s, a) ==
    IF s = <<>> THEN <<>>
    ELSE IF Head(s) = a THEN RemoveChar(Tail(s), a)
         ELSE <<Head(s)>> \o RemoveChar(Tail(s), a)

\* re.sub(r'\(.*\)', '', s): the greedy match runs from the first '(' to
\* the last ')'
RemoveParen(s) ==
    LET p == FirstIdx(s, "(")
        q == LastIdx(s, ")")
    IN  IF p = 0 \/ q < p THEN s
        ELSE SubSeq(s, 1, p - 1) \o SubSeq(s, q + 1, Len(s))

\* re.sub(r'\s*\(.*\)\s*', '', s): as RemoveParen, the match also taking the
\* whitespace run before the first '(' and after the last ')'
RemoveParenWs(s) ==
    LET p == FirstIdx(s, "(")
        q == LastIdx(s, ")")
        lo == CHOOSE i \in 1..p : /\ \A j \in i..(p-1) : s[j] = " "
                                  /\ (i = 1 \/ s[i-1] # " ")
        hi == CHOOSE i \in q..Len(s) : /\ \A j \in (q+1)..i : s[j] = " "
                                       /\ (i = Len(s) \/ s[i+1] # " ")
    IN  IF p = 0 \/ q < p THEN s
        ELSE SubSeq(s, 1, lo - 1) \o SubSeq(s, hi + 1, Len(s))

(***************************************************************************)
(* Config: network names, alias table, preference list.  The tables are    *)
(* the entries of the program's tables that the names of this model can    *)
(* hit, in the program's order.                                            *)
(***************************************************************************)
\* normalised network names (members of Config.NETWORK_PREFERENCE)
Net ==
    [ERC20   |-> <<"E","R","C","2","0">>,
     BEP20   |-> <<"B","E","P","2","0">>,
     TRC20   |-> <<"T","R","C","2","0">>,
     NAC     |-> <<"N","A","C">>,
     XRP     |-> <<"X","R","P">>,
     DEFAULT |-> <<"D","E","F","A","U","L","T">>,
     UNKNOWN_NETWORK |->
         <<"U","N","K","N","O","W","N","_","N","E","T","W","O","R","K">>]

\* network names as the fee file and the venues spell them
Raw ==
    [ERC20 |-> Net.ERC20,
     eth   |-> <<"e","t","h">>,
     BEP20 |-> <<"B","E","P","-","2","0">>,
     BSC   |-> <<"B","S","C">>,
     DEFAULT |-> Net.DEFAULT,
     UNKNOWN_NETWORK |-> Net.UNKNOWN_NETWORK]

\* Config.NETWORK_ALIASES, as (key, standard name) pairs in insertion order
NETWORK_ALIASES ==
    << << <<"E","T","H">>, Net.ERC20 >>,
       << <<"E","T","H","E","R","E","U","M">>, Net.ERC20 >>,
       << <<"E","T","H","(","E","R","C","2","0",")">>, Net.ERC20 >>,
       << <<"E","R","C","_","2","0">>, Net.ERC20 >>,
       << <<"B","S","C">>, Net.BEP20 >>,
       << <<"B","E","P","2","0","(","B","S","C",")">>, Net.BEP20 >>,
       << <<"T","R","X">>, Net.TRC20 >>,
       << <<"N","A","C">>, Net.NAC >>,
       << <<"G","A","T">>, Net.NAC >>,
       << Net.DEFAULT, Net.DEFAULT >>,
       << Net.UNKNOWN_NETWORK, Net.UNKNOWN_NETWORK >> >>

\* Config.NETWORK_PREFERENCE
NETWORK_PREFERENCE ==
    << Net.BEP20, Net.TRC20, Net.ERC20, Net.NAC, Net.XRP,
       Net.DEFAULT, Net.UNKNOWN_NETWORK >>

\* name in cls.NETWORK_ALIASES
InAliases(k) == \E i \in DOMAIN NETWORK_ALIASES : NETWORK_ALIASES[i][1] = k

\* the key itself in place of its standard name
AliasKey(k) == k

\* cls.NETWORK_ALIASES[name]
AliasOf(k) ==
    NETWORK_ALIASES[CHOOSE i \in DOMAIN NETWORK_ALIASES :
                        NETWORK_ALIASES[i][1] = k][2]

\* name in cls.NETWORK_PREFERENCE
InPreference(k) ==
    \E i \in DOMAIN NETWORK_PREFERENCE : NETWORK_PREFERENCE[i] = k

\* the two generic names
Generic == {Net.DEFAULT, Net.UNKNOWN_NETWORK}

\* x.replace(' ', '').replace('-', '').replace('_', '')
AggressiveKey(s) == RemoveChar(RemoveChar(RemoveChar(s, " "), "-"), "_")

\* Config.normalize_network_name_for_config; None and '' are both <<>>
Normalize(network_name_from_api_or_file) ==
    LET name_to_process == SplitSlashFirst(network_name_from_api_or_file)
        name_upper_stripped == Strip(Upper(name_to_process))
        name_processed_for_alias ==
            ReplaceChar(ReplaceChar(Strip(RemoveParenWs(name_upper_stripped)),
                                    " ", "_"), "-", "_")
        aggressive_key == AggressiveKey(name_upper_stripped)
        aggressive_key_no_paren == RemoveParen(aggressive_key)
        hits == {i \in DOMAIN NETWORK_ALIASES :
                    LET normalized_alias_key ==
                            AggressiveKey(Upper(NETWORK_ALIASES[i][1]))
                        normalized_alias_key_no_paren ==
                            RemoveParen(normalized_alias_key)
                    IN  \/ aggressive_key = normalized_alias_key
                        \/ /\ aggressive_key_no_paren =
                                  normalized_alias_key_no_paren
                           /\ normalized_alias_key_no_paren # <<>>}
    IN  IF network_name_from_api_or_file = <<>> THEN Net.UNKNOWN_NETWORK
        ELSE IF InAliases(name_upper_stripped)
            THEN AliasOf(name_upper_stripped)
        ELSE IF InPreference(name_upper_stripped)
                /\ name_upper_stripped \notin Generic
            THEN name_upper_stripped
        ELSE IF InAliases(name_processed_for_alias)
            THEN AliasOf(name_processed_for_alias)
        ELSE IF InPreference(name_processed_for_alias)
                /\ name_processed_for_alias \notin Generic
            THEN name_processed_for_alias
        ELSE IF hits # {}
            THEN NETWORK_ALIASES[CHOOSE i \in hits : \A j \in hits : i <= j][2]
        ELSE IF name_processed_for_alias # <<>>
                /\ InPreference(name_processed_for_alias)
            THEN name_processed_for_alias
        ELSE IF name_processed_for_alias # <<>>
            THEN name_processed_for_alias
        ELSE Net.UNKNOWN_NETWORK

(***************************************************************************)
(* Config.load_exchange_fees_from_file: the static fee table.  One network *)
(* block of the fee file is a record                                       *)
(*   [name, active, can_deposit, can_withdraw, fee, min_withdraw];         *)
(* an optional value is a sequence of length 0 (None) or 1.                *)
(***************************************************************************)
\* dict assignment d[key] = value on a sequence of entries kept in insertion
\* order: an existing key keeps its place
DictPut(table, entry) ==
    IF \E i \in DOMAIN table : table[i].normalized_name = entry.normalized_name
    THEN [i \in DOMAIN table |->
             IF table[i].normalized_name = entry.normalized_name
             THEN entry ELSE table[i]]
    ELSE Append(table, entry)

\* _save_current_network_data: the 'active' property of the block is read
\* from the file but not carried into the saved details
SaveCurrentNetworkData(table, network_info) ==
    LET final_net_details ==
            [normalized_name         |-> Normalize(network_info.name),
             original_name_from_file |-> network_info.name,
             can_withdraw            |-> network_info.can_withdraw,
             can_deposit             |-> network_info.can_deposit,
             fee                     |-> network_info.fee,
             min_withdraw            |-> network_info.min_withdraw]
    IN  IF network_info.name = <<>> THEN table
        ELSE IF final_net_details.can_withdraw /\ final_net_details.fee # <<>>
            THEN DictPut(table, final_net_details)
        ELSE table

\* the networks of one (exchange, token) of LOADED_EXCHANGE_FEES_DATA
RECURSIVE LoadNetworks(_)
LoadNetworks(blocks) ==
    IF blocks = <<>> THEN <<>>
    ELSE SaveCurrentNetworkData(LoadNetworks(SubSeq(blocks, 1, Len(blocks) - 1)),
                                blocks[Len(blocks)])

(***************************************************************************)
(* Analyzer._select_optimal_network_for_transfer.  A live (ccxt) network   *)
(* is a record [name, active, withdraw, deposit, fee, min].                *)
(***************************************************************************)
\* Config.ASSET_UNAVAILABLE_BLACKLIST
ASSET_UNAVAILABLE_BLACKLIST == {<<"kucoin", "MTL">>, <<"mexc", "MTL">>}

\* Config.TOKEN_NETWORK_RESTRICTIONS.get(key): <<>> when there is no rule
TokenNetworkRestrictions(exchange_id, asset) ==
    IF exchange_id = "binance" /\ asset = "USDT" THEN <<Net.BEP20>> ELSE <<>>

\* Config.TOKEN_PREFERRED_NETWORKS.get(asset): <<>> when the asset has no list
TokenPreferredNetworks(asset) ==
    IF asset = "USDT" THEN <<Net.BEP20, Net.TRC20, Net.ERC20>> ELSE <<>>

\* list.index(x), from 0; only used when x is in the list
IndexOf(list, x) == (CHOOSE i \in DOMAIN list : list[i] = x) - 1

\* x in list
InList(list, x) == \E i \in DOMAIN list : list[i] = x

\* Config.get_network_priority_score; asset "" stands for asset_symbol=None
GetNetworkPriorityScore(network_normalized, asset_symbol) ==
    LET token_list == IF asset_symbol = "" THEN <<>>
                      ELSE TokenPreferredNetworks(asset_symbol)
    IN  IF InList(token_list, network_normalized)
        THEN IndexOf(token_list, network_normalized)
        ELSE IF InPreference(network_normalized)
        THEN IndexOf(NETWORK_PREFERENCE, network_normalized)
                 + Len(token_list) + 1000
        ELSE 10000 + Len(token_list) + Len(NETWORK_PREFERENCE)

\* the first loop (static table) over the source venue's networks
FromDirect(from_networks_direct, allowed_networks_for_path, asset) ==
    LET keep(e) == /\ e.fee # <<>>
                   /\ e.can_withdraw
                   /\ \/ allowed_networks_for_path = <<>>
                      \/ InList(allowed_networks_for_path, e.normalized_name)
        detail(e) == [withdraw_network_code_on_from_ex |->
                          e.original_name_from_file,
                      normalized_name       |-> e.normalized_name,
                      fee_native            |-> e.fee[1],
                      min_withdrawal_native |->
                          IF e.min_withdraw = <<>> THEN 0 ELSE e.min_withdraw[1],
                      source_of_fee         |-> "DIRECT_CONFIG_DATA"]
        kept == SelectSeq(from_networks_direct, keep)
    IN  [i \in DOMAIN kept |-> detail(kept[i])]

\* the second loop (live currency metadata) over the source venue's networks
RECURSIVE FromCcxt(_, _, _)
FromCcxt(potential, from_networks_ccxt, allowed_networks_for_path) ==
    IF from_networks_ccxt = <<>> THEN potential
    ELSE LET n == Head(from_networks_ccxt)
             normalized_ccxt_net_name == Normalize(n.name)
             skip == \/ /\ allowed_networks_for_path # <<>>
                        /\ ~InList(allowed_networks_for_path,
                                   normalized_ccxt_net_name)
                     \/ \E i \in DOMAIN potential :
                            potential[i].normalized_name =
                                normalized_ccxt_net_name
                     \/ ~(n.active /\ n.withdraw)
                     \/ n.fee = <<>>
             added == Append(potential,
                        [withdraw_network_code_on_from_ex |-> n.name,
                         normalized_name       |-> normalized_ccxt_net_name,
                         fee_native            |-> n.fee[1],
                         min_withdrawal_native |->
                             IF n.min = <<>> THEN 0 ELSE n.min[1],
                         source_of_fee         |-> "CCXT_API_DATA"])
         IN  FromCcxt(IF skip THEN potential ELSE added,
                      Tail(from_networks_ccxt), allowed_networks_for_path)

\* active_deposit_normalized_nets_on_to_ex: (normalised name, deposit code)
\* pairs, static table first, then live metadata; the first entry of a name
\* wins
RECURSIVE ToDeposit(_, _, _)
ToDeposit(nets, to_networks_direct, to_networks_ccxt) ==
    LET has(k) == \E i \in DOMAIN nets : nets[i][1] = k
    IN  IF to_networks_direct # <<>>
        THEN LET d == Head(to_networks_direct)
             IN  ToDeposit(IF d.can_deposit /\ ~has(d.normalized_name)
                           THEN Append(nets, <<d.normalized_name,
                                               d.original_name_from_file>>)
                           ELSE nets,
                           Tail(to_networks_direct), to_networks_ccxt)
        ELSE IF to_networks_ccxt # <<>>
        THEN LET c == Head(to_networks_ccxt)
             IN  ToDeposit(IF c.active /\ c.deposit /\ ~has(Normalize(c.name))
                           THEN Append(nets, <<Normalize(c.name), c.name>>)
                           ELSE nets,
                           <<>>, Tail(to_networks_ccxt))
        ELSE nets

\* a minimum test that refuses no amount; the selector's property must tell
\* it from the real one
NeverBelowMinimum(amount, d) == FALSE

\* "amount_native_to_withdraw_optional is not None and
\* min_withdrawal_native > 0 and amount < min_withdrawal_native"
BelowMinimumWithdrawal(amount, d) ==
    /\ amount # <<>>
    /\ d.min_withdrawal_native > 0
    /\ amount[1] < d.min_withdrawal_native

\* the intersection loop: final_candidate_networks before sorting
FinalCandidates(potential, deposit_nets, amount, asset) ==
    LET code(k) == deposit_nets[CHOOSE i \in DOMAIN deposit_nets :
                                    deposit_nets[i][1] = k][2]
        keep(d) == /\ \E i \in DOMAIN deposit_nets :
                          deposit_nets[i][1] = d.normalized_name
                   /\ d.normalized_name # Net.UNKNOWN_NETWORK
                   /\ ~BelowMinimumWithdrawal(amount, d)
                   /\ code(d.normalized_name) # <<>>
        kept == SelectSeq(potential, keep)
    IN  [i \in DOMAIN kept |->
            [withdraw_network_code_on_from_ex |->
                 kept[i].withdraw_network_code_on_from_ex,
             deposit_network_code_on_to_ex |-> code(kept[i].normalized_name),
             normalized_name        |-> kept[i].normalized_name,
             fee_native             |-> kept[i].fee_native,
             min_withdrawal_native  |-> kept[i].min_withdrawal_native,
             source_of_fee          |-> kept[i].source_of_fee,
             priority_score_token   |->
                 GetNetworkPriorityScore(kept[i].normalized_name, asset),
             priority_score_general |->
                 GetNetworkPriorityScore(kept[i].normalized_name, "")]]

\* sort_key_for_networks(a) < sort_key_for_networks(b); every fee is in the
\* transferred asset, whose price is known, so the fee's value orders as
\* fee_native
SortKeyLess(a, b) ==
    \/ a.fee_native < b.fee_native
    \/ /\ a.fee_native = b.fee_native
       /\ \/ a.priority_score_token < b.priority_score_token
          \/ /\ a.priority_score_token = b.priority_score_token
             /\ a.priority_score_general < b.priority_score_general

\* list.sort(key=sort_key_for_networks): stable
RECURSIVE SortNetworks(_)
SortNetworks(list) ==
    IF list = <<>> THEN <<>>
    ELSE LET m == CHOOSE i \in DOMAIN list :
                      /\ \A j \in DOMAIN list : ~SortKeyLess(list[j], list[i])
                      /\ \A j \in 1..(i-1) : SortKeyLess(list[i], list[j])
             rest == [k \in 1..(Len(list) - 1) |->
                         IF k < m THEN list[k] ELSE list[k+1]]
         IN  <<list[m]>> \o SortNetworks(rest)

\* _select_optimal_network_for_transfer
SelectOptimalNetworkForTransfer(asset, from_exchange_id, to_exchange_id, amount, fee_file_from, from_networks_ccxt, fee_file_to, to_networks_ccxt) ==
    LET allowed_networks_for_path ==
            TokenNetworkRestrictions(from_exchange_id, asset)
        potential_from_networks_details ==
            FromCcxt(FromDirect(LoadNetworks(fee_file_from),
                                allowed_networks_for_path, asset),
                     from_networks_ccxt, allowed_networks_for_path)
        active_deposit_normalized_nets_on_to_ex ==
            ToDeposit(<<>>, LoadNetworks(fee_file_to), to_networks_ccxt)
    IN  IF \/ <<from_exchange_id, asset>> \in ASSET_UNAVAILABLE_BLACKLIST
           \/ <<to_exchange_id, asset>> \in ASSET_UNAVAILABLE_BLACKLIST
        THEN <<>>
        ELSE IF potential_from_networks_details = <<>> THEN <<>>
        ELSE IF active_deposit_normalized_nets_on_to_ex = <<>> THEN <<>>
        ELSE SortNetworks(FinalCandidates(potential_from_networks_details,
                              active_deposit_normalized_nets_on_to_ex,
                              amount, asset))

(***************************************************************************)
(* Rebalancer._get_deposit_address_generic: one call is a frame            *)
(*   [pc, to, asset, req, api, has_create, details, attempt, calls,        *)
(*    result, network]                                                     *)
(* req is the requested normalised name, api the network code sent to the  *)
(* venue, details the venue's address response held so far (<<>> for       *)
(* none), attempt the attempt that supplied it, calls the venue calls      *)
(* made, result the outcome ("none" for None, "address", "raised" for an   *)
(* exception) and network the 'network' entry of the returned address.     *)
(***************************************************************************)
\* a compatibility check that accepts whatever network the venue reports; the
\* network property of the deposit address must tell it from the real one
AnyNetworkCompatible(requested_normalized, returned_normalized) == TRUE

\* Rebalancer._are_networks_compatible
AreNetworksCompatible(requested_normalized, returned_normalized) ==
    IF requested_normalized = returned_normalized THEN TRUE
    ELSE IF returned_normalized = Net.DEFAULT
            /\ requested_normalized # Net.UNKNOWN_NETWORK THEN TRUE
    ELSE IF requested_normalized \notin Generic
            /\ returned_normalized \in Generic THEN FALSE
    ELSE IF requested_normalized # returned_normalized THEN FALSE
    ELSE TRUE

\* assets_requiring_memo_on_mexc
AssetsRequiringMemoOnMexc ==
    {"XRP", "XLM", "ATOM", "CRO", "HBAR", "EOS", "BTS", "TON"}

\* the placeholder deposit code 'UNKNOWN_ORIGINAL_CODE_ON_TO_EX'
UnknownOriginalCode ==
    <<"U","N","K","N","O","W","N","_","O","R","I","G","I","N","A","L","_",
      "C","O","D","E","_","O","N","_","T","O","_","E","X">>

\* no call in progress
DepIdle ==
    [pc |-> "idle", to |-> "", asset |-> "", req |-> <<>>, api |-> <<>>,
     has_create |-> FALSE, details |-> <<>>, attempt |-> 0, calls |-> <<>>,
     result |-> "none", network |-> <<>>]

\* the venue's answers to fetch_deposit_address / create_deposit_address: an
\* address with the network it is for (<<>> when the venue names none) and
\* with or without a tag; an answer without an address; an error that the
\* attempt logs; an error saying that deposits are disabled
VenueAddressResponses ==
    {[kind |-> "address", network |-> n, tag |-> g] :
        n \in {<<>>, Raw.ERC20, Raw.eth, Raw.BSC, Raw.DEFAULT}, g \in BOOLEAN}
    \cup {[kind |-> k, network |-> <<>>, tag |-> FALSE] :
             k \in {"no_address", "error", "deposit_disabled"}}

\* entry of the call up to the first venue call; network_info is
\* [normalized_name, deposit_network_code_on_to_ex]: normalized_name is <<>>
\* when the key is missing and <<name>> otherwise, the deposit code is <<>>
\* when missing or empty
DepEnter(to_exchange_id, asset_code, network_info, has_create) ==
    LET api_given == network_info.deposit_network_code_on_to_ex
        requested == network_info.normalized_name[1]
        api == IF \/ api_given = <<>>
                  \/ api_given \in {UnknownOriginalCode,
                                    Net.UNKNOWN_NETWORK, Net.DEFAULT}
               THEN IF requested \notin Generic THEN requested ELSE <<>>
               ELSE api_given
    IN  IF <<to_exchange_id, asset_code>> \in ASSET_UNAVAILABLE_BLACKLIST
        THEN [DepIdle EXCEPT !.pc = "done", !.to = to_exchange_id,
                             !.asset = asset_code]
        ELSE IF network_info.normalized_name = <<>>
        THEN [DepIdle EXCEPT !.pc = "done", !.to = to_exchange_id,
                             !.asset = asset_code, !.result = "raised"]
        ELSE [DepIdle EXCEPT
                !.pc = IF api # <<>> THEN "attempt1" ELSE "attempt2",
                !.to = to_exchange_id, !.asset = asset_code,
                !.req = requested, !.api = api, !.has_create = has_create]

\* the tail of the call without its memo check; the memo property of the
\* transfer leg must tell it from the real one
DepFinishWithoutMemoCheck(f) ==
    LET d == f.details[1]
        incompatible ==
            /\ d.network # <<>>
            /\ ~AreNetworksCompatible(f.req, Normalize(d.network))
        network == IF d.network = <<>> /\ f.api # <<>> THEN f.api
                   ELSE d.network
    IN  IF f.details = <<>> THEN [f EXCEPT !.pc = "done"]
        ELSE IF incompatible THEN [f EXCEPT !.pc = "done"]
        ELSE [f EXCEPT !.pc = "done", !.result = "address",
                       !.network = network]

\* the tail of the call, from "if not deposit_address_details" to the
\* return: no address, the final network check, the memo check
DepFinish(f) ==
    LET d == f.details[1]
        incompatible ==
            /\ d.network # <<>>
            /\ ~AreNetworksCompatible(f.req, Normalize(d.network))
        network == IF d.network = <<>> /\ f.api # <<>> THEN f.api
                   ELSE d.network
        memo_missing ==
            /\ f.to = "mexc"
            /\ f.asset \in AssetsRequiringMemoOnMexc
            /\ ~d.tag
    IN  IF f.details = <<>> THEN [f EXCEPT !.pc = "done"]
        ELSE IF incompatible \/ memo_missing
        THEN [f EXCEPT !.pc = "done"]
        ELSE [f EXCEPT !.pc = "done", !.result = "address",
                       !.network = network]

(***************************************************************************)
(* State.                                                                  *)
(***************************************************************************)
VARIABLES
    sel,               \* one call of the network selector: arguments, result
    dep,               \* per caller, its call of _get_deposit_address_generic
    DRY_RUN,           \* Config.DRY_RUN
    active_trades,     \* Executor.active_trades
    task,              \* per invocation of execute_arbitrage, its progress
    active_operations, \* Rebalancer.active_operations
    xfer,              \* per call of transfer_asset_between_exchanges, its
                       \* progress
    STABILITY_CYCLES,  \* Config.STABILITY_CYCLES
    analyzer,          \* Analyzer.stable_candidates
    cycles,            \* per cycle of main_loop, what it scanned and chose
    scanner,           \* one call of Scanner.scan_once: tickers, result
    balance_manager,   \* the calls of BalanceManager.get_all_balances
    trade_log,         \* a CompletedArbitrageLog through its order parsing
    cache,             \* Analyzer.currencies_cache and the calls that fill it
    invocation         \* one call of a function: its arguments, its result

\* the components next to the executor and the rebalancer
components ==
    <<STABILITY_CYCLES, analyzer, cycles, scanner, balance_manager, trade_log,
      cache, invocation>>

vars ==
    <<sel, dep, DRY_RUN, active_trades, task, active_operations, xfer,
      components>>

\* bound: concurrent invocations of Executor.execute_arbitrage
MaxTasks == 2

\* bound: concurrent calls of Rebalancer.transfer_asset_between_exchanges
MaxXfers == 2

\* the invocations of execute_arbitrage
Tasks == {<<"exec", i>> : i \in 1..MaxTasks}

\* the calls of transfer_asset_between_exchanges
Xfers == {<<"xfer", i>> : i \in 1..MaxXfers}

\* a direct caller of _get_deposit_address_generic
Client == <<"client", 0>>

\* the callers of _get_deposit_address_generic
Callers == Tasks \cup Xfers \cup {Client}

\* the selector is not running
SelIdle == [in |-> <<>>, out |-> <<>>, done |-> TRUE]

(***************************************************************************)
(* The network selector applied to bounded venue data.                     *)
(***************************************************************************)
\* a network block of the fee file with at most one property off
FeeFileBlock(name, off) ==
    [name         |-> name,
     active       |-> off # "inactive",
     can_deposit  |-> off # "no_deposit",
     can_withdraw |-> off # "no_withdraw",
     fee          |-> IF off = "no_fee" THEN <<>> ELSE <<1>>,
     min_withdraw |-> IF off = "min" THEN <<2>> ELSE <<>>]

\* a network of the live currency metadata with at most one property off
CcxtNetwork(name, off) ==
    [name     |-> name,
     active   |-> off # "inactive",
     deposit  |-> off # "no_deposit",
     withdraw |-> off # "no_withdraw",
     fee      |-> IF off = "no_fee" THEN <<>> ELSE <<1>>,
     min      |-> IF off = "min" THEN <<2>> ELSE <<>>]

\* the (asset, source venue, destination venue) paths of the selector runs
SelPaths ==
    {[asset |-> "XRP",  from |-> "binance", to |-> "mexc"],
     [asset |-> "USDT", from |-> "binance", to |-> "mexc"],
     [asset |-> "MTL",  from |-> "kucoin",  to |-> "mexc"]}

\* the arguments and venue data of the selector runs
SelInputs ==
    [path   : SelPaths,
     amount : {<<>>, <<1>>},
     fee_file_from :
         {<<>>} \cup {<<FeeFileBlock(n, off)>> :
                         n \in {Raw.ERC20, Raw.DEFAULT},
                         off \in {"none", "inactive", "no_withdraw",
                                  "no_fee", "min"}},
     from_networks_ccxt :
         {<<>>} \cup {<<CcxtNetwork(n, off)>> :
                         n \in {Raw.eth, Raw.BEP20, Raw.UNKNOWN_NETWORK},
                         off \in {"none", "inactive", "no_withdraw",
                                  "no_fee"}},
     fee_file_to :
         {<<>>} \cup {<<FeeFileBlock(n, off)>> :
                         n \in {Raw.ERC20, Raw.DEFAULT},
                         off \in {"none", "no_deposit"}},
     to_networks_ccxt :
         {<<>>} \cup {<<CcxtNetwork(n, off)>> :
                         n \in {Raw.eth, Raw.BSC, Raw.DEFAULT,
                                Raw.UNKNOWN_NETWORK},
                         off \in {"none", "inactive", "no_deposit"}}]

\* one call of _select_optimal_network_for_transfer
Select ==
    /\ ~sel.done
    /\ sel' = [sel EXCEPT
                 !.out = SelectOptimalNetworkForTransfer(
                             sel.in.path.asset, sel.in.path.from,
                             sel.in.path.to, sel.in.amount,
                             sel.in.fee_file_from, sel.in.from_networks_ccxt,
                             sel.in.fee_file_to, sel.in.to_networks_ccxt),
                 !.done = TRUE]
    /\ UNCHANGED <<dep, DRY_RUN, active_trades, task, active_operations, xfer,
                   components>>

(***************************************************************************)
(* The attempts of Rebalancer._get_deposit_address_generic, each on the    *)
(* venue's answer r to its call.                                           *)
(***************************************************************************)
\* the address entry of an answer
Address(r) == [network |-> r.network, tag |-> r.tag]

\* the frame after a venue call
Called(f, op, network) ==
    [f EXCEPT !.calls = Append(@, [op |-> op, network |-> network])]

\* attempt 1: fetch_deposit_address with the explicit network
Attempt1(f, r) ==
    LET sent == IF f.to = "gateio" /\ f.asset = "GAT" /\ f.api # Net.NAC
                THEN Net.NAC ELSE f.api
        g == Called(f, "fetch_deposit_address", sent)
    IN  IF r.kind = "deposit_disabled" THEN [g EXCEPT !.pc = "done"]
        ELSE IF r.kind = "address"
        THEN DepFinish([g EXCEPT !.details = <<Address(r)>>, !.attempt = 1])
        ELSE [g EXCEPT !.pc = "attempt2"]

\* attempt 2: fetch_deposit_address without a network
Attempt2(f, r) ==
    LET g == Called(f, "fetch_deposit_address", <<>>)
        returned_norm_net_no_param == Normalize(r.network)
    IN  IF r.kind = "deposit_disabled" THEN [g EXCEPT !.pc = "done"]
        ELSE IF /\ r.kind = "address"
                /\ AreNetworksCompatible(f.req, returned_norm_net_no_param)
        THEN DepFinish([g EXCEPT !.details = <<Address(r)>>, !.attempt = 2,
                                 !.api = r.network])
        ELSE IF g.has_create THEN [g EXCEPT !.pc = "attempt3"]
        ELSE DepFinish(g)

\* attempt 3: create_deposit_address
Attempt3(f, r) ==
    LET g == Called(f, "create_deposit_address", f.api)
    IN  IF r.kind = "deposit_disabled" THEN [g EXCEPT !.pc = "done"]
        ELSE IF r.kind = "address"
        THEN DepFinish([g EXCEPT !.details = <<Address(r)>>, !.attempt = 3])
        ELSE IF r.kind = "no_address" THEN [g EXCEPT !.pc = "refetch"]
        ELSE DepFinish(g)

\* attempt 3, after the wait: fetch_deposit_address with the create params
Refetch(f, r) ==
    LET g == Called(f, "fetch_deposit_address", f.api)
    IN  IF r.kind = "deposit_disabled" THEN [g EXCEPT !.pc = "done"]
        ELSE IF r.kind = "address"
        THEN DepFinish([g EXCEPT !.details = <<Address(r)>>, !.attempt = 3])
        ELSE DepFinish(g)

\* what an action of the deposit-address call leaves alone
DepUnchanged ==
    UNCHANGED <<sel, DRY_RUN, active_trades, task, active_operations, xfer,
                components>>

DepAttempt1(o, responses) ==
    /\ dep[o].pc = "attempt1"
    /\ \E r \in responses : dep' = [dep EXCEPT ![o] = Attempt1(dep[o], r)]
    /\ DepUnchanged

DepAttempt2(o, responses) ==
    /\ dep[o].pc = "attempt2"
    /\ \E r \in responses : dep' = [dep EXCEPT ![o] = Attempt2(dep[o], r)]
    /\ DepUnchanged

DepAttempt3(o, responses) ==
    /\ dep[o].pc = "attempt3"
    /\ \E r \in responses : dep' = [dep EXCEPT ![o] = Attempt3(dep[o], r)]
    /\ DepUnchanged

DepRefetch(o, responses) ==
    /\ dep[o].pc = "refetch"
    /\ \E r \in responses : dep' = [dep EXCEPT ![o] = Refetch(dep[o], r)]
    /\ DepUnchanged

\* the network_info arguments of the calls: the key 'normalized_name' missing
\* or present, the deposit code missing, specific or generic
NetworkInfos ==
    [normalized_name : {<<>>, <<Net.ERC20>>, <<Net.DEFAULT>>,
                        <<Net.UNKNOWN_NETWORK>>},
     deposit_network_code_on_to_ex : {<<>>, Raw.eth, Net.DEFAULT}]

\* the (venue, asset) pairs of the direct calls
AddrTargets ==
    {<<"mexc", "XRP">>, <<"mexc", "ETH">>, <<"gateio", "GAT">>,
     <<"mexc", "MTL">>}

\* a direct call of _get_deposit_address_generic
AddrCall ==
    /\ dep[Client].pc = "idle"
    /\ \E p \in AddrTargets, network_info \in NetworkInfos,
          has_create \in BOOLEAN :
          dep' = [dep EXCEPT ![Client] =
                     DepEnter(p[1], p[2], network_info, has_create)]
    /\ DepUnchanged

(***************************************************************************)
(* Executor.execute_arbitrage.  An invocation is a record                  *)
(*   [pc, opp, status, trail, error_message, ret, admitted, discarded,     *)
(*    calls, legs, amount, order_status]                                   *)
(* pc is the await the invocation is suspended at, status the status of    *)
(* its trade log entry, trail the values the status took, in order,        *)
(* error_message whether the entry's error message is                      *)
(* non-empty, ret the value returned, admitted whether it added its key to *)
(* active_trades, discarded whether it discarded it, calls the exchange    *)
(* calls it made outside the deposit-address call, legs the leg events in  *)
(* order, amount the net base amount bought.  In a dry run the orders and  *)
(* the withdrawal of the leg events are the simulated ones.                *)
(***************************************************************************)
\* self.exchanges: the connected venues
Exchanges == {"binance", "kucoin", "gateio", "mexc"}

\* the exchange calls that change venue state
MutatingCalls ==
    {"create_order", "cancel_order", "transfer", "withdraw",
     "create_deposit_address"}

\* ArbitrageOpportunity.get_unique_id; every symbol is base/USDT
GetUniqueId(opp) ==
    <<opp.buy_exchange_id, opp.sell_exchange_id, opp.base_asset>>

\* no opportunity
NoOpp ==
    [buy_exchange_id |-> "", sell_exchange_id |-> "", base_asset |-> "",
     buy_price |-> 0, is_liquid_enough_for_trade |-> FALSE,
     potential_networks |-> FALSE, chosen_network_details |-> <<>>]

\* an invocation that has not started; CompletedArbitrageLog starts PENDING
TaskIdle ==
    [pc |-> "idle", opp |-> NoOpp, status |-> "PENDING",
     trail |-> <<"PENDING">>,
     error_message |-> FALSE, ret |-> "none", admitted |-> FALSE,
     discarded |-> FALSE, calls |-> {}, legs |-> <<>>, amount |-> 0,
     order_status |-> "UNKNOWN"]

\* an admission check that never finds the key; the admission property must
\* tell it from the real one
TradeNeverActive(trades, trade_key) == FALSE

\* "trade_key in self.active_trades"
TradeAlreadyActive(trades, trade_key) == trade_key \in trades

\* _log_trade_event(..., is_error=True); status = ...;
\* self.active_trades.discard(trade_key); return False
Fail(tr, status) ==
    [tr EXCEPT !.status = status, !.trail = Append(@, status),
               !.error_message = TRUE,
               !.discarded = TRUE, !.pc = "returned", !.ret = "False"]

\* the invocation after exchange calls
Calls(tr, made) == [tr EXCEPT !.calls = @ \cup made]

\* the invocation after a leg event
Leg(tr, event) == [tr EXCEPT !.legs = Append(@, event)]

\* execute_arbitrage from its entry to its first await
Entry(opp, trades) ==
    LET idle == [TaskIdle EXCEPT !.opp = opp]
        adm  == [idle EXCEPT !.admitted = TRUE]
    IN  IF \/ <<opp.buy_exchange_id, opp.base_asset>>
                  \in ASSET_UNAVAILABLE_BLACKLIST
           \/ <<opp.sell_exchange_id, opp.base_asset>>
                  \in ASSET_UNAVAILABLE_BLACKLIST
        THEN [idle EXCEPT !.pc = "returned", !.ret = "False"]
        ELSE IF TradeAlreadyActive(trades, GetUniqueId(opp))
        THEN [idle EXCEPT !.pc = "returned", !.ret = "False"]
        ELSE IF ~opp.is_liquid_enough_for_trade
        THEN Fail(adm, "SETUP_ERROR_INSUFFICIENT_LIQUIDITY_PRE_CHECK")
        ELSE IF \/ opp.buy_exchange_id \notin Exchanges
                \/ opp.sell_exchange_id \notin Exchanges
        THEN Fail(adm, "SETUP_ERROR_EXCHANGE_INSTANCE")
        ELSE IF opp.buy_price <= 0
        THEN Fail(adm, "INVALID_DATA_PRICE_ERROR")
        ELSE [adm EXCEPT !.status = "BUY_LEG_PENDING",
                         !.trail = Append(@, "BUY_LEG_PENDING"),
                         !.pc = "buy_balance"]

\* the initial balance check of the buy leg; usdt is what
\* get_specific_account_balance returned, assets whether the snapshot lists
\* assets of the buy venue
BuyBalanceCheck(tr, usdt, assets) ==
    LET c == Calls(tr, {"fetch_balance"})
    IN  IF usdt = "none" THEN Fail(c, "BUY_LEG_FAILED_BALANCE_CHECK")
        ELSE IF usdt = "low"
        THEN [c EXCEPT !.pc = IF assets THEN "local_conversion"
                              ELSE "jit_balances"]
        ELSE [c EXCEPT !.pc = "usdt_internal_transfer"]

\* the outcomes of Rebalancer.convert_assets_to_usdt_on_exchange: no asset
\* meets the criteria, every one is below a market minimum (no order), a
\* conversion order filled, placed but not closed (then cancelled), or
\* refused by the venue; a dry run simulates a filled order
ConversionOutcomes(dry_run) ==
    IF dry_run THEN {"no_assets", "skipped", "converted"}
    ELSE {"no_assets", "skipped", "converted", "not_closed", "order_error"}

\* the exchange calls of a conversion
ConversionCalls(outcome, dry_run) ==
    IF outcome = "no_assets" THEN {}
    ELSE IF outcome = "skipped" \/ dry_run THEN {"fetch_ticker"}
    ELSE IF outcome = "converted"
    THEN {"fetch_ticker", "create_order", "fetch_order"}
    ELSE IF outcome = "not_closed"
    THEN {"fetch_ticker", "create_order", "fetch_order", "cancel_order"}
    ELSE {"fetch_ticker", "create_order"}

\* the local conversion on the buy venue
LocalConversion(tr, outcome, dry_run) ==
    LET c == Calls(tr, ConversionCalls(outcome, dry_run))
    IN  [c EXCEPT !.pc = IF outcome = "converted"
                         THEN "post_conversion_balance" ELSE "jit_balances"]

\* the balance check after a local conversion
PostConversionBalance(tr, usdt) ==
    LET c == Calls(tr, {"fetch_balance"})
    IN  IF usdt = "none"
        THEN Fail(c, "BUY_LEG_FAILED_BALANCE_CHECK_POST_CONV")
        ELSE IF usdt = "low" THEN [c EXCEPT !.pc = "jit_balances"]
        ELSE [c EXCEPT !.pc = "usdt_internal_transfer"]

\* BalanceManager.get_all_balances(calculate_usd_values=True): the class
\* body defines __init__ three times and the last one, which is the one in
\* force, does not create tickers_cache, so _get_tickers_with_cache raises
\* AttributeError and the safe-call wrapper returns the default {}
GetAllBalancesWithUsdValues == {}

\* JIT funding: the balances of the other venues
JitBalances(tr) ==
    LET c == Calls(tr, {"fetch_balance"})
    IN  IF GetAllBalancesWithUsdValues = {}
        THEN Fail(c, "JIT_FUNDING_FAILED_BALANCE_CHECK")
        ELSE [c EXCEPT !.pc = "jit_funding"]

\* the outcomes of Rebalancer._internal_transfer_if_needed: whether it
\* reached _execute_internal_transfer and what it returned
InternalTransferOutcomes ==
    [moved : BOOLEAN, ok : BOOLEAN]

\* the exchange calls of _internal_transfer_if_needed
InternalTransferCalls(outcome, dry_run) ==
    IF outcome.moved /\ ~dry_run THEN {"fetch_balance", "transfer"}
    ELSE {"fetch_balance"}

\* the internal transfer of USDT to the trading account before the buy
UsdtInternalTransfer(tr, outcome, dry_run) ==
    LET c == Calls(tr, InternalTransferCalls(outcome, dry_run))
    IN  IF ~outcome.ok
        THEN Fail(c, "BUY_LEG_FAILED_INTERNAL_TRANSFER_USDT")
        ELSE [c EXCEPT !.pc = "buy_order"]

\* the market buy order up to the await after its submission; a dry run
\* simulates a closed, filled order
BuyOrder(tr, outcome, filled, dry_run) ==
    LET sent == Leg(Calls(tr, {"create_order"}), "buy_submitted")
    IN  IF outcome = "no_market" THEN Fail(tr, "BUY_LEG_FAILED")
        ELSE IF dry_run
        THEN [Leg(Leg(tr, "buy_submitted"), "buy_filled") EXCEPT
                 !.status = "BUY_LEG_FILLED",
                 !.trail = Append(@, "BUY_LEG_FILLED"), !.amount = filled,
                 !.order_status = "CLOSED", !.pc = "post_buy"]
        ELSE IF outcome = "cannot_afford_minimum"
        THEN Fail(Calls(tr, {"fetch_balance"}), "BUY_LEG_FAILED")
        ELSE IF outcome = "refused"
        THEN Fail(Calls(tr, {"create_order"}), "BUY_LEG_FAILED")
        ELSE IF outcome = "unexpected"
        THEN Fail(Calls(tr, {"create_order"}), "BUY_LEG_FAILED_UNEXPECTED")
        ELSE IF outcome = "no_id" THEN Fail(sent, "BUY_LEG_FAILED")
        ELSE IF outcome = "closed_without_id"
        THEN [Leg(sent, "buy_filled") EXCEPT
                 !.status = "BUY_LEG_FILLED",
                 !.trail = Append(@, "BUY_LEG_FILLED"), !.amount = filled,
                 !.order_status = "CLOSED", !.pc = "post_buy"]
        ELSE [sent EXCEPT !.pc = "buy_fetch"]

\* the outcomes of placing a market order
OrderOutcomes ==
    {"no_market", "cannot_afford_minimum", "refused", "unexpected", "no_id",
     "closed_without_id", "id"}

\* the outcomes of _fetch_order_with_retry and of parsing what it returned
FetchOutcomes ==
    {"none", "open", "canceled", "closed_unfilled", "closed_filled",
     "unexpected"}

\* buy_order_status_parsed, sell_status_parsed: the status of the order
\* that _fetch_order_with_retry returned, in upper case; it stays UNKNOWN
\* when no order was returned
ParsedStatus(outcome) ==
    IF outcome = "open" THEN "OPEN"
    ELSE IF outcome = "canceled" THEN "CANCELED"
    ELSE IF outcome \in {"closed_unfilled", "closed_filled"} THEN "CLOSED"
    ELSE "UNKNOWN"

\* the buy order as fetched, were an order left open left alone
BuyFetchWithoutCancel(tr, outcome, filled) ==
    LET c == [Calls(tr, {"fetch_order"}) EXCEPT
                 !.order_status = ParsedStatus(outcome)]
    IN  IF outcome = "closed_filled"
        THEN [Leg(c, "buy_filled") EXCEPT
                 !.status = "BUY_LEG_FILLED",
                 !.trail = Append(@, "BUY_LEG_FILLED"), !.amount = filled,
                 !.pc = "post_buy"]
        ELSE IF outcome = "unexpected"
        THEN Fail(c, "BUY_LEG_FAILED_UNEXPECTED")
        ELSE Fail(c, "BUY_LEG_FAILED")

\* the buy order as fetched: only a closed order with a filled amount
\* completes the leg; an order neither closed nor cancelled is cancelled
BuyFetch(tr, outcome, filled) ==
    LET c == [Calls(tr, {"fetch_order"}) EXCEPT
                 !.order_status = ParsedStatus(outcome)]
    IN  IF outcome = "closed_filled"
        THEN [Leg(c, "buy_filled") EXCEPT
                 !.status = "BUY_LEG_FILLED",
                 !.trail = Append(@, "BUY_LEG_FILLED"), !.amount = filled,
                 !.pc = "post_buy"]
        ELSE IF outcome = "open"
        THEN Fail(Calls(c, {"cancel_order"}), "BUY_LEG_FAILED")
        ELSE IF outcome = "unexpected"
        THEN Fail(c, "BUY_LEG_FAILED_UNEXPECTED")
        ELSE Fail(c, "BUY_LEG_FAILED")

\* the checks that open the transfer leg, were the status left at
\* BUY_LEG_FILLED while they run
PostBuyWithoutPending(tr) ==
    IF ~tr.opp.potential_networks
    THEN Fail(tr, "TRANSFER_LEG_FAILED_NO_NETWORK_LIST")
    ELSE IF tr.opp.chosen_network_details = <<>>
    THEN Fail(tr, "TRANSFER_LEG_FAILED_NO_CHOSEN_NETWORK")
    ELSE [tr EXCEPT !.pc = "base_internal_transfer"]

\* the checks that open the transfer leg
PostBuy(tr) ==
    LET pending == [tr EXCEPT !.status = "TRANSFER_LEG_PENDING",
                              !.trail = Append(@, "TRANSFER_LEG_PENDING")]
    IN  IF ~tr.opp.potential_networks
        THEN Fail(pending, "TRANSFER_LEG_FAILED_NO_NETWORK_LIST")
        ELSE IF tr.opp.chosen_network_details = <<>>
        THEN Fail(pending, "TRANSFER_LEG_FAILED_NO_CHOSEN_NETWORK")
        ELSE [pending EXCEPT !.pc = "base_internal_transfer"]

\* the internal transfer of the base asset to the withdrawal account and the
\* call of _get_deposit_address_generic, whose frame is entered; an
\* exception raised there leaves execute_arbitrage through the safe-call
\* wrapper, which returns the default False
BaseInternalTransfer(tr, outcome, entered, dry_run) ==
    LET c == Calls(tr, InternalTransferCalls(outcome, dry_run))
    IN  IF ~outcome.ok
        THEN Fail(c, "TRANSFER_LEG_FAILED_INTERNAL_TRANSFER_BASE")
        ELSE IF entered.result = "raised"
        THEN [c EXCEPT !.pc = "returned", !.ret = "False"]
        ELSE [c EXCEPT !.pc = "deposit_address"]

\* the return of _get_deposit_address_generic
DepositAddressReturn(tr, f) ==
    IF f.result # "address"
    THEN Fail(tr, "TRANSFER_LEG_FAILED_DEPOSIT_ADDRESS")
    ELSE [tr EXCEPT !.pc = "withdrawal"]

\* the outcomes of Rebalancer._execute_withdrawal_generic: refused before
\* the venue call (amount below the minimum or not above the fee), the
\* withdraw call made and accepted, or made and failed; a dry run makes no
\* call
WithdrawalOutcomes == {"refused_locally", "submitted", "error"}

\* Rebalancer._execute_withdrawal_generic: the calls made and the result
ExecuteWithdrawalGeneric(outcome, dry_run) ==
    IF outcome = "refused_locally" THEN [calls |-> {}, ok |-> FALSE]
    ELSE IF dry_run THEN [calls |-> {}, ok |-> TRUE]
    ELSE [calls |-> {"withdraw"}, ok |-> outcome = "submitted"]

\* the withdrawal of the transfer leg
Withdrawal(tr, outcome, dry_run) ==
    LET w == ExecuteWithdrawalGeneric(outcome, dry_run)
        c == Calls(tr, w.calls)
    IN  IF ~w.ok THEN Fail(c, "TRANSFER_LEG_FAILED_WITHDRAWAL_EXEC")
        ELSE [Leg(c, "withdrawal_submitted") EXCEPT
                 !.status = "TRANSFER_LEG_INITIATED_WAITING_ARRIVAL",
                 !.trail = Append(@, "TRANSFER_LEG_INITIATED_WAITING_ARRIVAL"),
                 !.pc = "arrival_wait"]

\* the outcomes of _wait_for_asset_arrival
ArrivalOutcomes == {"no_initial_balance", "arrived", "timeout"}

\* an arrival wait whose result is not checked, so that the sell leg opens
\* even when the asset did not arrive; the ordering property must tell it from
\* the real one
ArrivalWaitUnchecked(tr, outcome) ==
    LET w == Leg(Calls(tr, {"fetch_balance"}), "arrival_wait_started")
        a == IF outcome = "arrived" THEN Leg(w, "arrival_confirmed") ELSE w
    IN  [a EXCEPT !.status = "SELL_LEG_PENDING",
                  !.trail = Append(@, "SELL_LEG_PENDING"),
                  !.pc = "sell_internal_transfer"]

\* _wait_for_asset_arrival and the check of what it returned; both ways of
\* returning None log an error
ArrivalWait(tr, outcome) ==
    LET w == Leg(Calls(tr, {"fetch_balance"}), "arrival_wait_started")
    IN  IF outcome = "arrived"
        THEN [Leg(w, "arrival_confirmed") EXCEPT
                 !.status = "SELL_LEG_PENDING",
                 !.trail = Append(@, "SELL_LEG_PENDING"),
                 !.pc = "sell_internal_transfer"]
        ELSE Fail(w, "TRANSFER_LEG_FAILED_NOT_ARRIVED")

\* the internal transfer of the base asset to the trading account
SellInternalTransfer(tr, outcome, dry_run) ==
    LET c == Calls(tr, InternalTransferCalls(outcome, dry_run))
    IN  IF ~outcome.ok
        THEN Fail(c, "SELL_LEG_FAILED_INTERNAL_TRANSFER_BASE")
        ELSE [c EXCEPT !.pc = "pre_sell_balance"]

\* the balance check before the sell
PreSellBalance(tr, base) ==
    LET c == Calls(tr, {"fetch_balance"})
    IN  IF base # "enough" THEN Fail(c, "SELL_LEG_FAILED_BALANCE_PRE_SELL")
        ELSE [c EXCEPT !.pc = "sell_order"]

\* the end of a sold trade; the finally clause discards the key
Completed(tr, profit) ==
    [tr EXCEPT !.status = IF profit THEN "COMPLETED_SUCCESS"
                          ELSE "COMPLETED_LOSS",
               !.trail = Append(@, IF profit THEN "COMPLETED_SUCCESS"
                                   ELSE "COMPLETED_LOSS"),
               !.discarded = TRUE, !.pc = "returned", !.ret = "True"]

\* the market sell order up to the await after its submission
SellOrder(tr, outcome, profit, dry_run) ==
    LET s    == [tr EXCEPT !.order_status = "UNKNOWN"]
        sent == Leg(Calls(s, {"create_order"}), "sell_submitted")
        closed(o) == [o EXCEPT !.order_status = "CLOSED"]
    IN  IF outcome \in {"no_market", "cannot_afford_minimum"}
        THEN Fail(s, "SELL_LEG_FAILED")
        ELSE IF dry_run
        THEN Completed(closed(Leg(s, "sell_submitted")), profit)
        ELSE IF outcome = "refused"
        THEN Fail(Calls(s, {"create_order"}), "SELL_LEG_FAILED")
        ELSE IF outcome = "unexpected"
        THEN Fail(Calls(s, {"create_order"}), "SELL_LEG_FAILED_UNEXPECTED")
        ELSE IF outcome = "no_id" THEN Fail(sent, "SELL_LEG_FAILED")
        ELSE IF outcome = "closed_without_id"
        THEN Completed(closed(sent), profit)
        ELSE [sent EXCEPT !.pc = "sell_fetch"]

\* the sell order as fetched
SellFetch(tr, outcome, profit) ==
    LET c == [Calls(tr, {"fetch_order"}) EXCEPT
                 !.order_status = ParsedStatus(outcome)]
    IN  IF outcome = "closed_filled" THEN Completed(c, profit)
        ELSE IF outcome = "open"
        THEN Fail(Calls(c, {"cancel_order"}), "SELL_LEG_FAILED")
        ELSE IF outcome = "unexpected"
        THEN Fail(c, "SELL_LEG_FAILED_UNEXPECTED")
        ELSE Fail(c, "SELL_LEG_FAILED")

(***************************************************************************)
(* The actions of an invocation t of execute_arbitrage: one per stretch    *)
(* between awaits that touches shared state or ends a leg.  env bounds     *)
(* what the caller and the venues supply: opps (the opportunities),        *)
(* amounts (the filled amounts), creates (whether the sell venue has       *)
(* createDepositAddress), responses (the venue's address answers) and the  *)
(* outcomes of the balance reads, conversions, internal transfers, orders, *)
(* order fetches, withdrawals and arrival waits.                           *)
(***************************************************************************)
\* the answers of get_specific_account_balance, against what is needed
BalanceOutcomes == {"none", "low", "enough"}

\* what an action of an invocation leaves alone
ExecUnchanged ==
    UNCHANGED <<sel, dep, DRY_RUN, active_operations, xfer, components>>

\* the invocation moves on; a return that discards the key takes it out of
\* active_trades
Step(t, new) ==
    /\ task' = [task EXCEPT ![t] = new]
    /\ active_trades' = IF new.discarded
                        THEN active_trades \ {GetUniqueId(new.opp)}
                        ELSE active_trades

\* a call of execute_arbitrage once the previous one of the slot returned
Invoke(t, env) ==
    /\ task[t].pc \in {"idle", "returned", "cancelled"}
    /\ \E opp \in env.opps :
          LET new == Entry(opp, active_trades)
              added == IF new.admitted
                       THEN active_trades \cup {GetUniqueId(opp)}
                       ELSE active_trades
          IN  /\ task' = [task EXCEPT ![t] = new]
              /\ active_trades' = IF new.discarded
                                  THEN added \ {GetUniqueId(opp)}
                                  ELSE added
    /\ dep' = [dep EXCEPT ![t] = DepIdle]
    /\ UNCHANGED <<sel, DRY_RUN, active_operations, xfer, components>>

BuyBalance(t, env) ==
    /\ task[t].pc = "buy_balance"
    /\ \E usdt \in env.balances, assets \in BOOLEAN :
          Step(t, BuyBalanceCheck(task[t], usdt, assets))
    /\ ExecUnchanged

Convert(t, env) ==
    /\ task[t].pc = "local_conversion"
    /\ \E outcome \in ConversionOutcomes(DRY_RUN) \cap env.conversions :
          Step(t, LocalConversion(task[t], outcome, DRY_RUN))
    /\ ExecUnchanged

PostConvert(t, env) ==
    /\ task[t].pc = "post_conversion_balance"
    /\ \E usdt \in env.balances :
          Step(t, PostConversionBalance(task[t], usdt))
    /\ ExecUnchanged

JitFunding(t) ==
    /\ task[t].pc = "jit_balances"
    /\ Step(t, JitBalances(task[t]))
    /\ ExecUnchanged

FundTrading(t, env) ==
    /\ task[t].pc = "usdt_internal_transfer"
    /\ \E outcome \in env.transfers :
          Step(t, UsdtInternalTransfer(task[t], outcome, DRY_RUN))
    /\ ExecUnchanged

Buy(t, env) ==
    /\ task[t].pc = "buy_order"
    /\ \E outcome \in env.orders, filled \in env.amounts :
          Step(t, BuyOrder(task[t], outcome, filled, DRY_RUN))
    /\ ExecUnchanged

BuyObserve(t, env) ==
    /\ task[t].pc = "buy_fetch"
    /\ \E outcome \in env.fetches, filled \in env.amounts :
          Step(t, BuyFetch(task[t], outcome, filled))
    /\ ExecUnchanged

OpenTransferLeg(t) ==
    /\ task[t].pc = "post_buy"
    /\ Step(t, PostBuy(task[t]))
    /\ ExecUnchanged

PrepareWithdrawalAccount(t, env) ==
    /\ task[t].pc = "base_internal_transfer"
    /\ \E outcome \in env.transfers, has_create \in env.creates :
          LET entered == DepEnter(task[t].opp.sell_exchange_id,
                                  task[t].opp.base_asset,
                                  task[t].opp.chosen_network_details[1],
                                  has_create)
          IN  /\ Step(t, BaseInternalTransfer(task[t], outcome, entered,
                                              DRY_RUN))
              /\ dep' = IF outcome.ok THEN [dep EXCEPT ![t] = entered]
                        ELSE dep
    /\ UNCHANGED <<sel, DRY_RUN, active_operations, xfer, components>>

DepositAddress(t) ==
    /\ task[t].pc = "deposit_address"
    /\ dep[t].pc = "done"
    /\ Step(t, DepositAddressReturn(task[t], dep[t]))
    /\ ExecUnchanged

Withdraw(t, env) ==
    /\ task[t].pc = "withdrawal"
    /\ \E outcome \in env.withdrawals :
          Step(t, Withdrawal(task[t], outcome, DRY_RUN))
    /\ ExecUnchanged

AwaitArrival(t, env) ==
    /\ task[t].pc = "arrival_wait"
    /\ \E outcome \in env.arrivals : Step(t, ArrivalWait(task[t], outcome))
    /\ ExecUnchanged

FundSell(t, env) ==
    /\ task[t].pc = "sell_internal_transfer"
    /\ \E outcome \in env.transfers :
          Step(t, SellInternalTransfer(task[t], outcome, DRY_RUN))
    /\ ExecUnchanged

PreSell(t, env) ==
    /\ task[t].pc = "pre_sell_balance"
    /\ \E base \in env.balances : Step(t, PreSellBalance(task[t], base))
    /\ ExecUnchanged

Sell(t, env) ==
    /\ task[t].pc = "sell_order"
    /\ \E outcome \in env.orders, profit \in BOOLEAN :
          Step(t, SellOrder(task[t], outcome, profit, DRY_RUN))
    /\ ExecUnchanged

SellObserve(t, env) ==
    /\ task[t].pc = "sell_fetch"
    /\ \E outcome \in env.fetches, profit \in BOOLEAN :
          Step(t, SellFetch(task[t], outcome, profit))
    /\ ExecUnchanged

\* the actions of the invocation, those of its deposit-address call included
Execute(t, env) ==
    \/ Invoke(t, env)
    \/ BuyBalance(t, env)
    \/ Convert(t, env)
    \/ PostConvert(t, env)
    \/ JitFunding(t)
    \/ FundTrading(t, env)
    \/ Buy(t, env)
    \/ BuyObserve(t, env)
    \/ OpenTransferLeg(t)
    \/ PrepareWithdrawalAccount(t, env)
    \/ DepAttempt1(t, env.responses)
    \/ DepAttempt2(t, env.responses)
    \/ DepAttempt3(t, env.responses)
    \/ DepRefetch(t, env.responses)
    \/ DepositAddress(t)
    \/ Withdraw(t, env)
    \/ AwaitArrival(t, env)
    \/ FundSell(t, env)
    \/ PreSell(t, env)
    \/ Sell(t, env)
    \/ SellObserve(t, env)

(***************************************************************************)
(* Rebalancer.transfer_asset_between_exchanges and the RebalanceOperation  *)
(* bookkeeping.  active_operations maps the key of each registered         *)
(* operation to whether its age exceeds max_age_seconds.  A call is a      *)
(* record [pc, asset, from, to, amount, details, ret, calls]; amounts are  *)
(* counted in halves of the quantisation step.                             *)
(***************************************************************************)
\* amount.quantize(quantize_step, rounding=ROUND_DOWN)
Quantize(amount) == (amount \div 2) * 2

\* Rebalancer._create_operation_key
CreateOperationKey(asset, from_exchange, to_exchange, amount) ==
    <<asset, from_exchange, to_exchange, amount>>

\* Rebalancer._is_operation_active
IsOperationActive(operations, key) == key \in DOMAIN operations

\* Rebalancer._start_operation: the operations afterwards; the call returns
\* False exactly when the key was active
StartOperation(operations, key) ==
    IF IsOperationActive(operations, key) THEN operations
    ELSE [k \in DOMAIN operations \cup {key} |->
             IF k = key THEN FALSE ELSE operations[k]]

\* _end_operation leaving the operation registered
EndOperationKeepingIt(operations, key) == operations

\* Rebalancer._end_operation
EndOperation(operations, key) ==
    [k \in DOMAIN operations \ {key} |-> operations[k]]

\* Rebalancer.cleanup_stale_operations: every operation older than
\* max_age_seconds is ended
CleanupStale(operations) ==
    [k \in {j \in DOMAIN operations : ~operations[j]} |-> operations[k]]

\* no call in progress
XferIdle ==
    [pc |-> "idle", asset |-> "", from |-> "", to |-> "", amount |-> 0,
     details |-> <<>>, ret |-> "none", calls |-> {}]

\* the key of a call
XferKey(x) == CreateOperationKey(x.asset, x.from, x.to, x.amount)

\* transfer_asset_between_exchanges up to _start_operation: no await
\* suspends it on the way
TransferEntry(asset_code, from_exchange_id, to_exchange_id, amount, details, operations) ==
    LET quantized_amount == Quantize(amount)
        x == [XferIdle EXCEPT !.asset = asset_code, !.from = from_exchange_id,
                              !.to = to_exchange_id,
                              !.amount = quantized_amount,
                              !.details = details]
    IN  IF from_exchange_id \notin Exchanges
        THEN [x EXCEPT !.pc = "returned", !.ret = "False"]
        ELSE IF quantized_amount <= 0
        THEN [x EXCEPT !.pc = "returned", !.ret = "False"]
        ELSE IF IsOperationActive(operations, XferKey(x))
        THEN [x EXCEPT !.pc = "returned", !.ret = "False"]
        ELSE [x EXCEPT !.pc = "prepare"]

\* the outcomes of _prepare_withdrawal_account_generic: the balance could
\* not be read or stays short, suffices, or sufficed after an internal
\* transfer
PrepareOutcomes == {"failed", "sufficient", "moved"}

\* _execute_asset_transfer up to the call of _get_deposit_address_generic;
\* found is the selector's first candidate (<<>> when it returns none),
\* entered the frame of the deposit-address call
ExecuteAssetTransfer(x, outcome, found, entered, dry_run) ==
    LET c == [x EXCEPT !.calls =
                 @ \cup IF outcome = "moved" /\ ~dry_run
                        THEN {"fetch_balance", "transfer"}
                        ELSE {"fetch_balance"}]
        final_network_details_to_use ==
            IF x.details # <<>> THEN x.details ELSE found
        no == [x EXCEPT !.pc = "returned", !.ret = "False"]
    IN  IF \/ <<x.from, x.asset>> \in ASSET_UNAVAILABLE_BLACKLIST
           \/ <<x.to, x.asset>> \in ASSET_UNAVAILABLE_BLACKLIST
        THEN no
        ELSE IF x.to \notin Exchanges THEN no
        ELSE IF outcome = "failed"
        THEN [c EXCEPT !.pc = "returned", !.ret = "False"]
        ELSE IF final_network_details_to_use = <<>>
        THEN [c EXCEPT !.pc = "returned", !.ret = "False"]
        ELSE IF entered.result = "raised"
        THEN [c EXCEPT !.pc = "returned", !.ret = "False",
                       !.details = final_network_details_to_use]
        ELSE [c EXCEPT !.pc = "deposit_address",
                       !.details = final_network_details_to_use]

\* what an action of a transfer call leaves alone
XferUnchanged == UNCHANGED <<sel, DRY_RUN, active_trades, task, components>>

\* the call moves on; a return runs the finally clause, which ends the
\* operation of the call's key
XferStep(x, new) ==
    /\ xfer' = [xfer EXCEPT ![x] = new]
    /\ active_operations' = IF new.pc = "returned"
                            THEN EndOperation(active_operations, XferKey(new))
                            ELSE active_operations

\* a call of transfer_asset_between_exchanges once the previous one of the
\* slot returned
TransferCall(x, env) ==
    /\ xfer[x].pc \in {"idle", "returned"}
    /\ \E p \in env.paths, amount \in env.raw_amounts,
          details \in env.overrides :
          LET new == TransferEntry(p[1], p[2], p[3], amount, details,
                                   active_operations)
          IN  /\ xfer' = [xfer EXCEPT ![x] = new]
              /\ active_operations' =
                     IF new.pc = "prepare"
                     THEN StartOperation(active_operations, XferKey(new))
                     ELSE active_operations
    /\ dep' = [dep EXCEPT ![x] = DepIdle]
    /\ XferUnchanged

TransferPrepare(x, env) ==
    /\ xfer[x].pc = "prepare"
    /\ \E outcome \in env.prepares, found \in env.overrides,
          has_create \in env.creates :
          LET details == IF xfer[x].details # <<>> THEN xfer[x].details
                         ELSE found
              entered == IF details = <<>> THEN DepIdle
                         ELSE DepEnter(xfer[x].to, xfer[x].asset, details[1],
                                       has_create)
              new == ExecuteAssetTransfer(xfer[x], outcome, found, entered,
                                          DRY_RUN)
          IN  /\ XferStep(x, new)
              /\ dep' = IF new.pc = "deposit_address" \/ entered.result = "raised"
                        THEN [dep EXCEPT ![x] = entered] ELSE dep
    /\ XferUnchanged

TransferDepositAddress(x) ==
    /\ xfer[x].pc = "deposit_address"
    /\ dep[x].pc = "done"
    /\ XferStep(x, IF dep[x].result # "address"
                   THEN [xfer[x] EXCEPT !.pc = "returned", !.ret = "False"]
                   ELSE [xfer[x] EXCEPT !.pc = "withdrawal"])
    /\ UNCHANGED dep
    /\ XferUnchanged

TransferWithdraw(x, env) ==
    /\ xfer[x].pc = "withdrawal"
    /\ \E outcome \in env.withdrawals :
          LET w == ExecuteWithdrawalGeneric(outcome, DRY_RUN)
          IN  XferStep(x, [xfer[x] EXCEPT
                              !.calls = @ \cup w.calls, !.pc = "returned",
                              !.ret = IF w.ok THEN "True" ELSE "False"])
    /\ UNCHANGED dep
    /\ XferUnchanged

\* the age of a registered operation passes max_age_seconds
OperationAges ==
    /\ \E k \in DOMAIN active_operations :
          /\ ~active_operations[k]
          /\ active_operations' = [active_operations EXCEPT ![k] = TRUE]
    /\ UNCHANGED <<sel, dep, DRY_RUN, active_trades, task, xfer, components>>

\* the main loop's call of cleanup_stale_operations
CleanupStaleOperations ==
    /\ active_operations' = CleanupStale(active_operations)
    /\ UNCHANGED <<sel, dep, DRY_RUN, active_trades, task, xfer, components>>

\* the actions of a transfer call, those of its deposit-address call included
Transfer(x, env) ==
    \/ TransferCall(x, env)
    \/ TransferPrepare(x, env)
    \/ DepAttempt1(x, env.responses)
    \/ DepAttempt2(x, env.responses)
    \/ DepAttempt3(x, env.responses)
    \/ DepRefetch(x, env.responses)
    \/ TransferDepositAddress(x)
    \/ TransferWithdraw(x, env)

(***************************************************************************)
(* What the callers and the venues supply.                                 *)
(***************************************************************************)
\* chosen_network_details as the Analyzer builds it
AnalyzerDetails ==
    [normalized_name |-> <<Net.ERC20>>,
     deposit_network_code_on_to_ex |-> Raw.eth]

\* a non-empty chosen_network_details without the key 'normalized_name'
DetailsWithoutName ==
    [normalized_name |-> <<>>, deposit_network_code_on_to_ex |-> <<>>]

\* ArbitrageOpportunity objects over the given (buy venue, sell venue, base
\* asset) paths and chosen_network_details
Opportunities(paths, details) ==
    {[buy_exchange_id |-> p[1], sell_exchange_id |-> p[2],
      base_asset |-> p[3], buy_price |-> price,
      is_liquid_enough_for_trade |-> liquid, potential_networks |-> listed,
      chosen_network_details |-> d] :
        p \in paths, price \in {0, 1}, liquid \in BOOLEAN,
        listed \in BOOLEAN, d \in details}

\* the quantised net amount a filled buy order leaves
FilledAmounts == {2}

\* one invocation at a time: a memo asset, a plain asset, a blacklisted
\* asset and a venue that is not connected
ExecEnv ==
    [opps      |-> Opportunities({<<"binance", "mexc", "XRP">>,
                                  <<"binance", "mexc", "ETH">>,
                                  <<"kucoin", "mexc", "MTL">>,
                                  <<"binance", "okx", "ETH">>},
                                 {<<>>, <<AnalyzerDetails>>,
                                  <<DetailsWithoutName>>}),
     amounts   |-> FilledAmounts,
     creates   |-> BOOLEAN,
     responses |-> VenueAddressResponses,
     balances    |-> BalanceOutcomes,
     conversions |-> ConversionOutcomes(FALSE),
     transfers   |-> InternalTransferOutcomes,
     orders      |-> OrderOutcomes,
     fetches     |-> FetchOutcomes,
     withdrawals |-> WithdrawalOutcomes,
     arrivals    |-> ArrivalOutcomes]

\* the venue answers of the concurrent runs: an address for the requested
\* network with a tag, or none
FewResponses ==
    {r \in VenueAddressResponses :
        \/ r.kind = "no_address"
        \/ r.kind = "address" /\ r.network = Raw.ERC20 /\ r.tag}

\* the venues of the concurrent runs: every step can succeed and the orders,
\* the withdrawal and the arrival wait can fail
FewOutcomes ==
    [balances    |-> {"low", "enough"},
     conversions |-> {"converted"},
     transfers   |-> {[moved |-> TRUE, ok |-> TRUE]},
     orders      |-> {"refused", "id"},
     fetches     |-> {"open", "closed_filled"},
     withdrawals |-> {"submitted", "error"},
     arrivals    |-> {"arrived", "timeout"},
     prepares    |-> {"failed", "moved"}]

\* left @@ right restricted to what records need
Merge(left, right) ==
    [k \in DOMAIN left \cup DOMAIN right |->
        IF k \in DOMAIN left THEN left[k] ELSE right[k]]

\* concurrent invocations: two identities, liquid and priced
ConcurrentEnv ==
    Merge([opps      |-> {o \in Opportunities({<<"binance", "mexc", "XRP">>,
                                               <<"binance", "mexc", "ETH">>},
                                              {<<AnalyzerDetails>>,
                                               <<DetailsWithoutName>>}) :
                             /\ o.buy_price = 1
                             /\ o.potential_networks},
           amounts   |-> FilledAmounts,
           creates   |-> {TRUE},
           responses |-> FewResponses],
          FewOutcomes)

\* bound: the raw amounts of the transfer calls, in halves of a step
MaxRawAmount == 3

\* transfers next to the transfer leg of an invocation: calls for its path
\* and for USDT, with or without a network override
TransferEnv ==
    Merge([opps        |-> {},
           amounts     |-> FilledAmounts,
           creates     |-> {TRUE},
           responses   |-> FewResponses,
           paths       |-> {<<"XRP", "binance", "mexc">>,
                            <<"USDT", "binance", "mexc">>},
           raw_amounts |-> 1..MaxRawAmount,
           overrides   |-> {<<>>, <<AnalyzerDetails>>}],
          FewOutcomes)

(***************************************************************************)
(* Specifications.                                                         *)
(***************************************************************************)

\* no scan cycle has run
AnalyzerIdle == [stable_candidates |-> <<>>]

\* no call of scan_once
ScannerIdle == [in |-> <<>>, out |-> <<>>, done |-> TRUE]

\* no call of get_all_balances
BalanceManagerIdle == [calls |-> <<>>, returned |-> <<>>]

\* a CompletedArbitrageLog as created: PENDING, nothing recorded
TradeLogIdle ==
    [status |-> "PENDING", buy_exchange_id |-> "", error_message |-> FALSE,
     buy_leg |-> <<>>, initial_buy_cost_usdt |-> <<>>,
     net_base_asset_after_buy_fee |-> <<>>, sell_leg |-> <<>>,
     usdt_received_from_sell |-> <<>>, final_net_profit_usdt |-> <<>>,
     final_net_profit_pct |-> <<>>]

\* no currency information cached, no call filling the cache
CacheIdle == [currencies_cache |-> <<>>, callers |-> <<>>, fetched |-> <<>>]

\* no function called
CallIdle == [of |-> "", in |-> <<>>, out |-> <<>>, done |-> TRUE]

\* the scanner, the analyzer, the balance manager and the order parsing at
\* rest
Standby ==
    /\ STABILITY_CYCLES = 1
    /\ analyzer = AnalyzerIdle
    /\ cycles = <<>>
    /\ scanner = ScannerIdle
    /\ balance_manager = BalanceManagerIdle
    /\ trade_log = TradeLogIdle
    /\ cache = CacheIdle
    /\ invocation = CallIdle

\* nothing is running
Quiet ==
    /\ dep = [c \in Callers |-> DepIdle]
    /\ active_trades = {}
    /\ task = [t \in Tasks |-> TaskIdle]
    /\ active_operations = [k \in {} |-> FALSE]
    /\ xfer = [x \in Xfers |-> XferIdle]
    /\ Standby

\* one invocation of execute_arbitrage at a time, as the main loop awaits
\* each, live or as a dry run
Init ==
    /\ sel = SelIdle
    /\ DRY_RUN \in BOOLEAN
    /\ Quiet

Next == Execute(<<"exec", 1>>, ExecEnv)

Spec == Init /\ [][Next]_vars

\* concurrent invocations of execute_arbitrage, live
ConcurrentInit ==
    /\ sel = SelIdle
    /\ DRY_RUN = FALSE
    /\ Quiet

ConcurrentNext == \E t \in Tasks : Execute(t, ConcurrentEnv)

ConcurrentSpec == ConcurrentInit /\ [][ConcurrentNext]_vars

\* the opportunity of the invocation that runs next to the transfers
BoughtOpp ==
    [buy_exchange_id |-> "binance", sell_exchange_id |-> "mexc",
     base_asset |-> "XRP", buy_price |-> 1,
     is_liquid_enough_for_trade |-> TRUE, potential_networks |-> TRUE,
     chosen_network_details |-> <<AnalyzerDetails>>]

\* that invocation once its buy order is observed filled: admitted on an
\* empty active_trades, funded, ordered, filled
BoughtTask ==
    BuyFetch(
        BuyOrder(
            UsdtInternalTransfer(
                BuyBalanceCheck(Entry(BoughtOpp, {}), "enough", FALSE),
                [moved |-> FALSE, ok |-> TRUE], FALSE),
            "id", 2, FALSE),
        "closed_filled", 2)

\* the transfer leg of an invocation of execute_arbitrage next to calls of
\* transfer_asset_between_exchanges and to cleanup_stale_operations, live
TransferInit ==
    /\ sel = SelIdle
    /\ DRY_RUN = FALSE
    /\ dep = [c \in Callers |-> DepIdle]
    /\ active_trades = {GetUniqueId(BoughtOpp)}
    /\ task = [t \in Tasks |-> IF t = <<"exec", 1>> THEN BoughtTask
                               ELSE TaskIdle]
    /\ active_operations = [k \in {} |-> FALSE]
    /\ xfer = [x \in Xfers |-> XferIdle]
    /\ Standby

\* the actions of the transfer leg of an invocation
TransferLeg(t, env) ==
    \/ OpenTransferLeg(t)
    \/ PrepareWithdrawalAccount(t, env)
    \/ DepAttempt1(t, env.responses)
    \/ DepAttempt2(t, env.responses)
    \/ DepAttempt3(t, env.responses)
    \/ DepRefetch(t, env.responses)
    \/ DepositAddress(t)
    \/ Withdraw(t, env)

TransferNext ==
    \/ TransferLeg(<<"exec", 1>>, TransferEnv)
    \/ \E x \in Xfers : Transfer(x, TransferEnv)
    \/ OperationAges
    \/ CleanupStaleOperations

TransferSpec == TransferInit /\ [][TransferNext]_vars

\* direct calls of _get_deposit_address_generic
AddrNext ==
    \/ AddrCall
    \/ DepAttempt1(Client, VenueAddressResponses)
    \/ DepAttempt2(Client, VenueAddressResponses)
    \/ DepAttempt3(Client, VenueAddressResponses)
    \/ DepRefetch(Client, VenueAddressResponses)

AddrSpec == ConcurrentInit /\ [][AddrNext]_vars

\* runs of the network selector
SelInit ==
    /\ sel \in {s \in [in : SelInputs, out : {<<>>}, done : {FALSE}] :
                   \/ s.in.path.asset = "XRP"
                   \/ /\ s.in.amount = <<>>
                      /\ s.in.fee_file_from = <<>>
                      /\ s.in.fee_file_to = <<>>}
    /\ DRY_RUN = FALSE
    /\ Quiet

SelNext == Select

SelSpec == SelInit /\ [][SelNext]_vars

(***************************************************************************)
(* Properties.                                                             *)
(***************************************************************************)
\* the invocation t is between its admission and its return
Running(t) == task[t].admitted /\ task[t].pc \notin {"idle", "returned"}

\* the invocation t was turned away because its key was in active_trades
Rejected(t) ==
    /\ task[t].pc = "returned"
    /\ ~task[t].admitted
    /\ <<task[t].opp.buy_exchange_id, task[t].opp.base_asset>>
           \notin ASSET_UNAVAILABLE_BLACKLIST
    /\ <<task[t].opp.sell_exchange_id, task[t].opp.base_asset>>
           \notin ASSET_UNAVAILABLE_BLACKLIST

\* the venue calls of the deposit-address call of c
DepCalls(c) == {dep[c].calls[i].op : i \in DOMAIN dep[c].calls}

\* C1: under any interleaving of concurrent invocations of execute_arbitrage
\* no two running invocations have the same (buy venue, sell venue, symbol)
\* identity, the identity of a running invocation is in active_trades, and an
\* invocation rejected because its identity was active has made no exchange
\* call.
C1_OneExecutionPerIdentity ==
    /\ \A t, u \in Tasks :
          (t # u /\ Running(t) /\ Running(u))
              => GetUniqueId(task[t].opp) # GetUniqueId(task[u].opp)
    /\ \A t \in Tasks :
          Running(t) => GetUniqueId(task[t].opp) \in active_trades
    /\ \A t \in Tasks :
          Rejected(t) => task[t].calls = {} /\ DepCalls(t) = {}

\* an invocation is rejected while another one with the same identity, which
\* has made exchange calls, is running
C1_RejectedWhileRunning ==
    \E t, u \in Tasks :
        /\ t # u
        /\ Running(t)
        /\ task[t].calls # {}
        /\ Rejected(u)
        /\ GetUniqueId(task[u].opp) = GetUniqueId(task[t].opp)

\* the (asset, from venue, to venue, quantised amount) keys of the transfers
\* in flight, each with who runs it: a transfer is in flight from the end of
\* its withdrawal-account preparation to the return of its withdrawal call
InFlight ==
    {<<x, XferKey(xfer[x])>> :
        x \in {y \in Xfers : xfer[y].pc \in {"deposit_address", "withdrawal"}}}
    \cup
    {<<t, CreateOperationKey(task[t].opp.base_asset,
                             task[t].opp.buy_exchange_id,
                             task[t].opp.sell_exchange_id, task[t].amount)>> :
        t \in {u \in Tasks : task[u].pc \in {"deposit_address", "withdrawal"}}}

\* C2: at any time at most one cross-venue transfer is in flight for each
\* (asset, from venue, to venue, quantised amount), over the calls of
\* transfer_asset_between_exchanges, the transfer leg of execute_arbitrage and
\* every interleaving with cleanup_stale_operations.
C2_OneTransferInFlightPerKey ==
    \A a, b \in InFlight : a[2] = b[2] => a[1] = b[1]

\* the leg events of a complete execution, in order
LegOrder ==
    <<"buy_submitted", "buy_filled", "withdrawal_submitted",
      "arrival_wait_started", "arrival_confirmed", "sell_submitted">>

\* C3: in every execution the leg events so far are an initial part of: buy
\* order submitted, buy order observed filled, withdrawal submitted, arrival
\* wait started, arrival confirmed, sell order submitted.
C3_LegsInOrder ==
    \A t \in Tasks :
        /\ Len(task[t].legs) <= Len(LegOrder)
        /\ task[t].legs = SubSeq(LegOrder, 1, Len(task[t].legs))

\* an execution went through every leg and submitted its sell order
C3_AllLegsDone ==
    \E t \in Tasks : task[t].legs = LegOrder /\ task[t].pc = "returned"

C5_NoMutatingCallWithoutPreconditions ==
    \A t \in Tasks :
        (\/ ~task[t].opp.is_liquid_enough_for_trade
         \/ task[t].opp.chosen_network_details = <<>>)
            => (task[t].calls \cup DepCalls(t)) \cap MutatingCalls = {}

\* C6: when DRY_RUN is true no create-order, cancel-order, internal transfer,
\* withdraw or create-deposit-address call is made.
C6_DryRunMakesNoMutatingCall ==
    DRY_RUN =>
        \A t \in Tasks :
            (task[t].calls \cup DepCalls(t)) \cap MutatingCalls = {}

\* the source network of a candidate is active and withdrawable
SourceActive(c) ==
    IF c.source_of_fee = "DIRECT_CONFIG_DATA"
    THEN \E i \in DOMAIN sel.in.fee_file_from :
            LET b == sel.in.fee_file_from[i]
            IN  /\ b.name = c.withdraw_network_code_on_from_ex
                /\ b.active /\ b.can_withdraw
    ELSE \E i \in DOMAIN sel.in.from_networks_ccxt :
            LET n == sel.in.from_networks_ccxt[i]
            IN  /\ n.name = c.withdraw_network_code_on_from_ex
                /\ n.active /\ n.withdraw

\* the destination network of a candidate is active and depositable
DestinationActive(c) ==
    \/ \E i \in DOMAIN sel.in.fee_file_to :
          LET b == sel.in.fee_file_to[i]
          IN  /\ b.name = c.deposit_network_code_on_to_ex
              /\ b.active /\ b.can_deposit
    \/ \E i \in DOMAIN sel.in.to_networks_ccxt :
          LET n == sel.in.to_networks_ccxt[i]
          IN  /\ n.name = c.deposit_network_code_on_to_ex
              /\ n.active /\ n.deposit

\* C7: every candidate the selector returns pairs an active, withdrawable
\* network of the source venue with an active, depositable network of the
\* destination venue of the same normalised name, which is not
\* UNKNOWN_NETWORK.
C7_CandidatesPairActiveNetworks ==
    sel.done =>
        \A i \in DOMAIN sel.out :
            LET c == sel.out[i]
            IN  /\ SourceActive(c)
                /\ DestinationActive(c)
                /\ Normalize(c.withdraw_network_code_on_from_ex)
                       = c.normalized_name
                /\ Normalize(c.deposit_network_code_on_to_ex)
                       = c.normalized_name
                /\ c.normalized_name # Net.UNKNOWN_NETWORK

\* C8: no candidate the selector returns has the normalised name DEFAULT or
\* UNKNOWN_NETWORK.
C8_NoGenericCandidate ==
    sel.done =>
        \A i \in DOMAIN sel.out : sel.out[i].normalized_name \notin Generic

\* the network the venue reported with the address the call holds
Reported(c) == Normalize(dep[c].details[1].network)

\* C9: a call of _get_deposit_address_generic returns an address whose venue
\* names a network only if that network normalises to the requested one, or
\* to DEFAULT when the requested one is specific; this holds whichever of the
\* three attempts supplied the address.
C9_IncompatibleAddressFails ==
    \A c \in Callers :
        (/\ dep[c].result = "address"
         /\ dep[c].details[1].network # <<>>)
            => /\ dep[c].attempt \in 1..3
               /\ \/ Reported(c) = dep[c].req
                  \/ Reported(c) = Net.DEFAULT /\ dep[c].req \notin Generic

\* the third attempt supplied an address for another network and the call
\* returned None
C9_ThirdAttemptRefused ==
    /\ dep[Client].pc = "done"
    /\ dep[Client].result = "none"
    /\ dep[Client].attempt = 3
    /\ dep[Client].details # <<>>
    /\ dep[Client].details[1].network # <<>>
    /\ Reported(Client) # dep[Client].req
    /\ Reported(Client) # Net.DEFAULT

\* the deposit-address call of t holds an address without a tag for an asset
\* that needs a memo on the sell venue
TaglessForMemoAsset(t) ==
    /\ dep[t].pc = "done"
    /\ dep[t].to = "mexc"
    /\ dep[t].asset \in AssetsRequiringMemoOnMexc
    /\ dep[t].details # <<>>
    /\ ~dep[t].details[1].tag

\* C10: when the sell venue requires a memo for the base asset and the lookup
\* yields an address without a tag, the acquisition fails, no withdrawal is
\* submitted, and the execution ends in TRANSFER_LEG_FAILED_DEPOSIT_ADDRESS.
C10_TaglessAddressStopsTransfer ==
    \A t \in Tasks :
        TaglessForMemoAsset(t)
            => /\ dep[t].result # "address"
               /\ "withdraw" \notin task[t].calls
               /\ \A i \in DOMAIN task[t].legs :
                      task[t].legs[i] # "withdrawal_submitted"
               /\ task[t].pc \in {"deposit_address", "returned"}
               /\ task[t].pc = "returned"
                      => /\ task[t].status
                               = "TRANSFER_LEG_FAILED_DEPOSIT_ADDRESS"
                         /\ task[t].ret = "False"

\* a live execution for a memo asset got an address of the requested network
\* without a tag and ended
C10_TaglessAddressSeen ==
    \E t \in Tasks :
        /\ ~DRY_RUN
        /\ TaglessForMemoAsset(t)
        /\ dep[t].details[1].network # <<>>
        /\ Reported(t) = dep[t].req
        /\ task[t].pc = "returned"
        /\ task[t].status = "TRANSFER_LEG_FAILED_DEPOSIT_ADDRESS"


(***************************************************************************)
(* The scan cycle of main_loop: Scanner.scan_once, then, for a non-empty   *)
(* scan, Analyzer.analyze_and_select_best.  An opportunity is its identity *)
(* <<buy venue, sell venue, base asset>>; a stability entry is a record    *)
(* [stability_count, is_stable].  The prices an entry carries and the      *)
(* execution that follows a selection do not touch the stability table and *)
(* are left out.                                                           *)
(***************************************************************************)
\* the base assets of the scans that Config.is_leveraged_token accepts
LeveragedTokens == {"BTC3L"}

\* the identities a scan can report
ScanIds ==
    {<<"binance", "mexc", "XRP">>, <<"kucoin", "binance", "ETH">>,
     <<"kucoin", "mexc", "MTL">>, <<"binance", "kucoin", "BTC3L">>}

\* the values Config.STABILITY_CYCLES takes: the one of the source, and two
StabilityCycles == {1, 2}

\* bound: cycles of main_loop
MaxCycles == 4

\* valid_opportunities_pre_stability: neither leveraged nor with a venue
\* blacklisted for the asset
ValidOpportunities(opportunities) ==
    {u \in opportunities :
        /\ u[3] \notin LeveragedTokens
        /\ <<u[1], u[3]>> \notin ASSET_UNAVAILABLE_BLACKLIST
        /\ <<u[2], u[3]>> \notin ASSET_UNAVAILABLE_BLACKLIST}

\* _update_stability_counts, were an entry marked only once its count
\* exceeds STABILITY_CYCLES
UpdateStabilityCountsLate(stable_candidates, current, required) ==
    [u \in current |->
        LET count == IF u \in DOMAIN stable_candidates
                     THEN stable_candidates[u].stability_count + 1
                     ELSE 1
            was   == /\ u \in DOMAIN stable_candidates
                     /\ stable_candidates[u].is_stable
        IN  [stability_count |-> count,
             is_stable       |-> was \/ count > required]]

\* _update_stability_counts: count the identities of this scan, mark the
\* ones counted STABILITY_CYCLES times, drop every other identity
UpdateStabilityCounts(stable_candidates, current, required) ==
    [u \in current |->
        LET count == IF u \in DOMAIN stable_candidates
                     THEN stable_candidates[u].stability_count + 1
                     ELSE 1
            was   == /\ u \in DOMAIN stable_candidates
                     /\ stable_candidates[u].is_stable
        IN  [stability_count |-> count,
             is_stable       |-> was \/ count >= required]]

\* the stability table after the update analyze_and_select_best makes for
\* these opportunities: none for an empty list or a list without a valid
\* opportunity, where it returns before the update
AnalyzedCandidates(stable_candidates, opportunities, required) ==
    IF opportunities = {} \/ ValidOpportunities(opportunities) = {}
    THEN stable_candidates
    ELSE UpdateStabilityCounts(stable_candidates,
                               ValidOpportunities(opportunities), required)

\* stable_opportunities_gross, from which the best opportunity is taken; no
\* opportunity is considered where the analysis returned before the update
StableOpportunities(stable_candidates, opportunities, required) ==
    IF opportunities = {} \/ ValidOpportunities(opportunities) = {}
    THEN {}
    ELSE LET updated == AnalyzedCandidates(stable_candidates, opportunities,
                                           required)
         IN  {u \in DOMAIN updated : updated[u].is_stable}

\* analyze_and_select_best, were the chosen opportunity left in the table
SelectBestKeepingChosen(stable_candidates, opportunities, required, best) ==
    AnalyzedCandidates(stable_candidates, opportunities, required)

\* analyze_and_select_best: best is <<>> for None, or the stable opportunity
\* that enrichment, net profit and liquidity leave first; the chosen one
\* leaves the table
AnalyzeAndSelectBest(stable_candidates, opportunities, required, best) ==
    LET updated == AnalyzedCandidates(stable_candidates, opportunities,
                                      required)
    IN  IF best = <<>> THEN updated
        ELSE [u \in DOMAIN updated \ {best[1]} |-> updated[u]]

\* one cycle of main_loop from its scan on: an empty scan is not analysed
Cycle ==
    /\ Len(cycles) < MaxCycles
    /\ \E scan \in SUBSET ScanIds :
          \E best \in {<<>>} \cup
                      {<<u>> : u \in StableOpportunities(
                                         analyzer.stable_candidates, scan,
                                         STABILITY_CYCLES)} :
             /\ analyzer' =
                    [analyzer EXCEPT !.stable_candidates =
                        AnalyzeAndSelectBest(@, scan, STABILITY_CYCLES, best)]
             /\ cycles' = Append(cycles, [scan |-> scan, best |-> best])
    /\ UNCHANGED <<sel, dep, DRY_RUN, active_trades, task, active_operations,
                   xfer, STABILITY_CYCLES, scanner, balance_manager,
                   trade_log, cache,
                   invocation>>

\* the executor and the rebalancer at rest
Parked ==
    /\ sel = SelIdle
    /\ DRY_RUN = FALSE
    /\ dep = [c \in Callers |-> DepIdle]
    /\ active_trades = {}
    /\ task = [t \in Tasks |-> TaskIdle]
    /\ active_operations = [k \in {} |-> FALSE]
    /\ xfer = [x \in Xfers |-> XferIdle]

\* the cycles of main_loop on a new Analyzer
CycleInit ==
    /\ Parked
    /\ STABILITY_CYCLES \in StabilityCycles
    /\ analyzer = AnalyzerIdle
    /\ cycles = <<>>
    /\ scanner = ScannerIdle
    /\ balance_manager = BalanceManagerIdle
    /\ trade_log = TradeLogIdle
    /\ cache = CacheIdle
    /\ invocation = CallIdle

CycleNext == Cycle

CycleSpec == CycleInit /\ [][CycleNext]_vars

\* the scans of the last n cycles up to cycle k, fewer when fewer were made
LastScans(k, n) == {cycles[j].scan : j \in {i \in 1..k : i > k - n}}

\* C11: after every scan cycle, every opportunity identity that was not in
\* that cycle's scan output is absent from the Analyzer's stability table,
\* whether the scan was empty, wholly filtered out or analysed.
C11_AbsentIdentitiesLeaveTable ==
    cycles # <<>> =>
        DOMAIN analyzer.stable_candidates \subseteq cycles[Len(cycles)].scan

\* C12: an opportunity is selected in a cycle only if it was in the scan
\* output of that cycle and of each of the STABILITY_CYCLES - 1 cycles
\* before it.
C12_SelectedAfterConsecutiveScans ==
    \A k \in DOMAIN cycles :
        cycles[k].best # <<>> =>
            /\ k >= STABILITY_CYCLES
            /\ \A scan \in LastScans(k, STABILITY_CYCLES) :
                  cycles[k].best[1] \in scan


(***************************************************************************)
(* Scanner.scan_once on one ticker snapshot of a common pair of two        *)
(* venues.  A price is a whole number of ticks, <<>> for None; a ticker is *)
(* <<>> when the venue returned none for the symbol, else a record [ask,   *)
(* bid, last, close].  A percentage is kept exact, as the fraction         *)
(* [num, den] with den > 0.                                                *)
(***************************************************************************)
\* Config.MIN_PROFIT_THRESHOLD_GROSS, in percent
MIN_PROFIT_THRESHOLD_GROSS == 1

\* Config.MAX_PROFIT_THRESHOLD, in percent
MAX_PROFIT_THRESHOLD == 13

\* get_relevant_price: the ask or the bid, or "last or close" when the
\* ticker has none
GetRelevantPrice(ticker_dict, side) ==
    LET price_val == IF side = "ask" THEN ticker_dict.ask ELSE ticker_dict.bid
    IN  IF price_val # <<>> THEN price_val
        ELSE IF ticker_dict.last # <<>> /\ ticker_dict.last[1] # 0
        THEN ticker_dict.last
        ELSE ticker_dict.close

\* ((sell_price - buy_price) / buy_price) * Decimal('100')
GrossProfitPercentage(buy_price, sell_price) ==
    [num |-> (sell_price - buy_price) * 100, den |-> buy_price]

\* a threshold test that lets every percentage through; the scanner's
\* property must tell it from the real one
AnyGrossProfit(pct) == TRUE

\* MIN_PROFIT_THRESHOLD_GROSS <= gross_profit_percentage
\*     <= MAX_PROFIT_THRESHOLD
WithinThresholds(pct) ==
    /\ MIN_PROFIT_THRESHOLD_GROSS * pct.den <= pct.num
    /\ pct.num <= MAX_PROFIT_THRESHOLD * pct.den

\* the opportunities of one direction of a pair: buy at the ask of one
\* venue, sell at the bid of the other
DirectedOpportunities(buy_ex, sell_ex, symbol, buy_ticker, sell_ticker) ==
    LET buy_price  == GetRelevantPrice(buy_ticker, "ask")
        sell_price == GetRelevantPrice(sell_ticker, "bid")
    IN  IF /\ buy_price # <<>> /\ sell_price # <<>>
           /\ buy_price[1] > 0 /\ sell_price[1] > 0
           /\ buy_price[1] < sell_price[1]
           /\ WithinThresholds(
                  GrossProfitPercentage(buy_price[1], sell_price[1]))
        THEN <<[buy_exchange_id  |-> buy_ex,
                sell_exchange_id |-> sell_ex,
                symbol           |-> symbol,
                buy_price        |-> buy_price[1],
                sell_price       |-> sell_price[1],
                gross_profit_pct |->
                    GrossProfitPercentage(buy_price[1], sell_price[1])]>>
        ELSE <<>>

\* scan_once for the pair (ex1, ex2) and one symbol, from the fetched
\* tickers on: both directions, none when a venue has no ticker
ScanOnce(ex1, ex2, symbol, tickers) ==
    IF tickers[ex1] = <<>> \/ tickers[ex2] = <<>> THEN <<>>
    ELSE DirectedOpportunities(ex1, ex2, symbol,
                               tickers[ex1][1], tickers[ex2][1])
         \o DirectedOpportunities(ex2, ex1, symbol,
                                  tickers[ex2][1], tickers[ex1][1])

\* the tickers a venue returns for the symbol
Tickers ==
    {<<>>} \cup
    {<<tk>> : tk \in [ask   : {<<>>, <<0>>, <<1000>>, <<1010>>},
                      bid   : {<<>>, <<0>>, <<1005>>, <<1010>>, <<1130>>,
                               <<1140>>},
                      last  : {<<>>, <<0>>, <<1000>>},
                      close : {<<>>, <<1130>>}]}

\* one call of scan_once
Scan ==
    /\ ~scanner.done
    /\ scanner' = [scanner EXCEPT
                     !.out = ScanOnce("binance", "mexc", "XRP/USDT",
                                      scanner.in),
                     !.done = TRUE]
    /\ UNCHANGED <<sel, dep, DRY_RUN, active_trades, task, active_operations,
                   xfer, STABILITY_CYCLES, analyzer, cycles, balance_manager,
                   trade_log, cache,
                   invocation>>

\* calls of scan_once, one per ticker snapshot
ScanInit ==
    /\ Parked
    /\ STABILITY_CYCLES = 1
    /\ analyzer = AnalyzerIdle
    /\ cycles = <<>>
    /\ scanner \in [in : [{"binance", "mexc"} -> Tickers], out : {<<>>},
                    done : {FALSE}]
    /\ balance_manager = BalanceManagerIdle
    /\ trade_log = TradeLogIdle
    /\ cache = CacheIdle
    /\ invocation = CallIdle

ScanNext == Scan

ScanSpec == ScanInit /\ [][ScanNext]_vars

\* C13: every gross opportunity scan_once returns has 0 < buy_price <
\* sell_price, gross_profit_pct = (sell_price - buy_price) / buy_price * 100
\* and MIN_PROFIT_THRESHOLD_GROSS <= gross_profit_pct <=
\* MAX_PROFIT_THRESHOLD, whatever the tickers.
C13_GrossOpportunitiesWithinThresholds ==
    scanner.done =>
        \A i \in DOMAIN scanner.out :
            LET o == scanner.out[i]
            IN  /\ 0 < o.buy_price
                /\ o.buy_price < o.sell_price
                /\ o.gross_profit_pct.den > 0
                /\ o.gross_profit_pct.num * o.buy_price
                       = (o.sell_price - o.buy_price) * 100
                             * o.gross_profit_pct.den
                /\ MIN_PROFIT_THRESHOLD_GROSS * o.buy_price
                       <= (o.sell_price - o.buy_price) * 100
                /\ (o.sell_price - o.buy_price) * 100
                       <= MAX_PROFIT_THRESHOLD * o.buy_price

\* a scan that returned an opportunity at the upper threshold from tickers
\* whose other direction was refused
C13_OpportunityAtUpperThreshold ==
    /\ scanner.done
    /\ Len(scanner.out) = 1
    /\ scanner.out[1].gross_profit_pct.num
           = MAX_PROFIT_THRESHOLD * scanner.out[1].gross_profit_pct.den


(***************************************************************************)
(* The parsing of the final order responses in execute_arbitrage, for an   *)
(* opportunity on XRP/USDT.  Amounts are whole numbers of units far above  *)
(* DECIMAL_COMPARISON_EPSILON, so that "> epsilon" is "> 0"; <<>> is None. *)
(* An order response is a record [status, filled, amount, cost, average,   *)
(* fee, info]: fee is <<>> or <<[currency, cost]>>, the first entry of     *)
(* 'fees'; info is <<>> or <<[filled_amount, amount, filled_total, fee]>>, *)
(* the venue's own record, whose values are strings, so that a present     *)
(* zero is not falsy.                                                      *)
(***************************************************************************)
\* the prices of the opportunity that is executed
OrderOpp == [buy_price |-> 2, sell_price |-> 3]

\* "x if x is not None and Decimal(x) > epsilon else None"
PositiveOrNone(x) == IF x # <<>> /\ x[1] > 0 THEN x ELSE <<>>

\* the gross filled amount of a closed order outside the Gate.io branch:
\* 'filled' when positive, else 'amount' when positive, else None
GrossFilled(r) ==
    IF PositiveOrNone(r.filled) # <<>> THEN r.filled
    ELSE PositiveOrNone(r.amount)

\* the quote value of a closed order: 'cost' when positive, else the gross
\* amount at 'average' when positive, else at the opportunity's price
QuoteValue(r, gross, price) ==
    IF PositiveOrNone(r.cost) # <<>> THEN r.cost[1]
    ELSE IF gross = <<>> \/ gross[1] = 0 THEN 0
    ELSE IF PositiveOrNone(r.average) # <<>> THEN gross[1] * r.average[1]
    ELSE gross[1] * price

\* the fee of the standard fields: fees[0], or fee, with cost and currency
StandardFee(r) == r.fee

\* the gross amount, cost and fee the buy parsing reads from a closed
\* order: from the venue's record on Gate.io, else from the standard fields
BuyReading(venue, r) ==
    IF venue = "gateio" /\ r.info # <<>>
    THEN LET info == r.info[1]
             filled_str_info == IF info.filled_amount # <<>>
                                THEN info.filled_amount ELSE info.amount
         IN  [gross |-> IF filled_str_info # <<>> THEN filled_str_info
                        ELSE <<0>>,
              cost  |-> IF info.filled_total # <<>> THEN info.filled_total[1]
                        ELSE 0,
              fee   |-> IF info.fee # <<>> THEN info.fee ELSE StandardFee(r)]
    ELSE [gross |-> GrossFilled(r),
          cost  |-> QuoteValue(r, GrossFilled(r), OrderOpp.buy_price),
          fee   |-> StandardFee(r)]

\* actual_amount_bought_base_net_fee: the gross amount less a fee charged
\* in the base asset
NetOfFee(gross, fee, asset) ==
    IF fee # <<>> /\ fee[1].currency = asset THEN gross - fee[1].cost
    ELSE gross

\* the buy leg after its final order response
ParseBuyOrder(log, r) ==
    LET failed  == [log EXCEPT !.status = "BUY_LEG_FAILED",
                               !.error_message = TRUE]
        reading == BuyReading(log.buy_exchange_id, r)
    IN  IF r.status # "closed" THEN failed
        ELSE IF reading.gross = <<>> THEN failed
        ELSE IF NetOfFee(reading.gross[1], reading.fee, "XRP") <= 0
        THEN failed
        ELSE [log EXCEPT
                !.buy_leg = <<[amount_base |->
                                   NetOfFee(reading.gross[1], reading.fee,
                                            "XRP"),
                               cost_quote |-> reading.cost,
                               fee |-> reading.fee,
                               raw_response |-> r]>>,
                !.initial_buy_cost_usdt = <<reading.cost>>,
                !.net_base_asset_after_buy_fee =
                    <<NetOfFee(reading.gross[1], reading.fee, "XRP")>>,
                !.status = "BUY_LEG_FILLED"]

\* a profit that is the proceeds alone; the profit property must tell it
\* from the real one
ProceedsAsProfit(received, cost) == received

\* usdt_received_net - trade_log_entry.initial_buy_cost_usdt
NetProfit(received, cost) == received - cost

\* the sell leg after its final order response; the profit message cannot
\* be formatted without a percentage, which is a ValueError
ParseSellOrder(log, r) ==
    LET failed   == [log EXCEPT !.status = "SELL_LEG_FAILED",
                                !.error_message = TRUE]
        filled   == GrossFilled(r)
        received == NetOfFee(QuoteValue(r, filled, OrderOpp.sell_price),
                             StandardFee(r), "USDT")
        sold     == [log EXCEPT
                       !.sell_leg = <<[amount_base |-> filled[1],
                                       cost_quote |-> received,
                                       fee |-> StandardFee(r),
                                       raw_response |-> r]>>,
                       !.usdt_received_from_sell = <<received>>]
        cost     == log.initial_buy_cost_usdt
        profit   == NetProfit(received, cost[1])
    IN  IF r.status # "closed" THEN failed
        ELSE IF filled = <<>> THEN failed
        ELSE IF received <= 0 THEN failed
        ELSE IF cost = <<>>
        THEN [sold EXCEPT !.status = "COMPLETED_UNKNOWN_PROFIT"]
        ELSE IF cost[1] <= 0
        THEN [sold EXCEPT !.final_net_profit_usdt = <<profit>>,
                          !.status = "SELL_LEG_FAILED",
                          !.error_message = TRUE]
        ELSE [sold EXCEPT
                !.final_net_profit_usdt = <<profit>>,
                !.final_net_profit_pct =
                    <<[num |-> profit * 100, den |-> cost[1]]>>,
                !.status = IF profit > 0 THEN "COMPLETED_SUCCESS"
                           ELSE "COMPLETED_LOSS"]

\* the fees an order response carries
OrderFees ==
    {<<>>, <<[currency |-> "XRP", cost |-> 1]>>,
     <<[currency |-> "XRP", cost |-> 2]>>,
     <<[currency |-> "USDT", cost |-> 1]>>}

\* the final order responses outside Gate.io
OrderResponses ==
    [status : {"closed", "open"}, filled : {<<>>, <<0>>, <<2>>},
     amount : {<<>>, <<3>>}, cost : {<<>>, <<5>>}, average : {<<>>, <<3>>},
     fee : OrderFees, info : {<<>>}]

\* the final buy order responses of Gate.io, with the venue's record
GateResponses ==
    [status : {"closed"}, filled : {<<0>>, <<2>>}, amount : {<<3>>},
     cost : {<<>>}, average : {<<>>}, fee : {<<>>},
     info : {<<i>> : i \in [filled_amount : {<<>>, <<0>>, <<2>>},
                            amount : {<<>>, <<3>>},
                            filled_total : {<<>>, <<5>>},
                            fee : {<<>>,
                                   <<[currency |-> "XRP", cost |-> 1]>>}]}]

\* what an order step leaves alone
OrderUnchanged ==
    UNCHANGED <<sel, dep, DRY_RUN, active_trades, task, active_operations,
                xfer, STABILITY_CYCLES, analyzer, cycles, scanner,
                balance_manager, cache, invocation>>

\* the buy order's final response is parsed
BuyParsed ==
    /\ trade_log.status = "BUY_LEG_PENDING"
    /\ \E r \in OrderResponses \cup
                (IF trade_log.buy_exchange_id = "gateio" THEN GateResponses
                 ELSE {}) :
          trade_log' = ParseBuyOrder(trade_log, r)
    /\ OrderUnchanged

\* the transfer leg between the orders, as far as the log's amounts go
Transferred ==
    /\ trade_log.status = "BUY_LEG_FILLED"
    /\ trade_log' = [trade_log EXCEPT !.status = "SELL_LEG_PENDING"]
    /\ OrderUnchanged

\* the sell order's final response is parsed
SellParsed ==
    /\ trade_log.status = "SELL_LEG_PENDING"
    /\ \E r \in OrderResponses : trade_log' = ParseSellOrder(trade_log, r)
    /\ OrderUnchanged

\* a trade from its buy order's final response on
OrderInit ==
    /\ Parked
    /\ STABILITY_CYCLES = 1
    /\ analyzer = AnalyzerIdle
    /\ cycles = <<>>
    /\ scanner = ScannerIdle
    /\ balance_manager = BalanceManagerIdle
    /\ trade_log \in {[TradeLogIdle EXCEPT !.status = "BUY_LEG_PENDING",
                                           !.buy_exchange_id = v] :
                         v \in {"binance", "gateio"}}
    /\ cache = CacheIdle
    /\ invocation = CallIdle

OrderNext == BuyParsed \/ Transferred \/ SellParsed

OrderSpec == OrderInit /\ [][OrderNext]_vars

\* C14: whenever a trade reaches BUY_LEG_FILLED on an order that reports a
\* filled amount, its recorded net_base_asset_after_buy_fee is that amount
\* less the fee when the fee currency is the base asset, and that amount
\* otherwise.
C14_NetBaseIsFilledLessBaseFee ==
    trade_log.status = "BUY_LEG_FILLED" =>
        LET leg == trade_log.buy_leg[1]
        IN  leg.raw_response.filled # <<>> =>
                trade_log.net_base_asset_after_buy_fee
                    = <<NetOfFee(leg.raw_response.filled[1], leg.fee,
                                 "XRP")>>

\* C15: whenever a trade reaches a COMPLETED_* state, its
\* final_net_profit_usdt is recorded and is usdt_received_from_sell less
\* initial_buy_cost_usdt.
C15_ProfitIsProceedsLessCost ==
    trade_log.status \in {"COMPLETED_SUCCESS", "COMPLETED_LOSS",
                          "COMPLETED_UNKNOWN_PROFIT"} =>
        /\ trade_log.final_net_profit_usdt # <<>>
        /\ trade_log.usdt_received_from_sell # <<>>
        /\ trade_log.initial_buy_cost_usdt # <<>>
        /\ trade_log.final_net_profit_usdt[1]
               = trade_log.usdt_received_from_sell[1]
                     - trade_log.initial_buy_cost_usdt[1]

\* a trade completed at a loss after a sell fee in the quote asset
C15_CompletedAtLoss ==
    /\ trade_log.status = "COMPLETED_LOSS"
    /\ trade_log.final_net_profit_usdt[1] < 0
    /\ trade_log.sell_leg[1].fee # <<>>
    /\ trade_log.sell_leg[1].fee[1].currency = "USDT"

\* C16: an order whose final reported filled amount is zero never advances
\* the execution: the trade reaches neither BUY_LEG_FILLED on such a buy
\* order nor COMPLETED_* on such a sell order, closed or not.
C16_ZeroFillNeverAdvances ==
    /\ trade_log.status = "BUY_LEG_FILLED" =>
           trade_log.buy_leg[1].raw_response.filled # <<0>>
    /\ trade_log.status \in {"COMPLETED_SUCCESS", "COMPLETED_LOSS",
                             "COMPLETED_UNKNOWN_PROFIT"} =>
           trade_log.sell_leg[1].raw_response.filled # <<0>>


\* what the selector returns for the same arguments and venue data when no
\* amount is supplied
WithoutAmount ==
    SelectOptimalNetworkForTransfer(
        sel.in.path.asset, sel.in.path.from, sel.in.path.to, <<>>,
        sel.in.fee_file_from, sel.in.from_networks_ccxt,
        sel.in.fee_file_to, sel.in.to_networks_ccxt)

\* C17: when an amount is supplied to the network selector, no candidate it
\* returns has a min_withdrawal_native above that amount, and it returns the
\* empty list when the amount is below the min_withdrawal_native of every
\* network that matches otherwise.
C17_NoCandidateAboveAmount ==
    (sel.done /\ sel.in.amount # <<>>) =>
        /\ \A i \in DOMAIN sel.out :
              sel.out[i].min_withdrawal_native <= sel.in.amount[1]
        /\ (\A i \in DOMAIN WithoutAmount :
               WithoutAmount[i].min_withdrawal_native > sel.in.amount[1])
           => sel.out = <<>>

\* a run with an amount that returned nothing although a network matched
C17_AllBelowMinimum ==
    /\ sel.done
    /\ sel.in.amount # <<>>
    /\ WithoutAmount # <<>>
    /\ sel.out = <<>>


(***************************************************************************)
(* Cancellation of an invocation of execute_arbitrage at the await it is   *)
(* suspended on.  asyncio.CancelledError is not an Exception: neither      *)
(* safe_call_wrapper nor the legs' "except Exception" clauses catch it,    *)
(* and only the sell leg has a finally clause.                             *)
(***************************************************************************)
\* the awaits inside the sell leg's try, whose finally discards the key
InSellTry == {"sell_order", "sell_fetch"}

\* the invocation is cancelled where it waits
Cancel(t) ==
    /\ task[t].pc \notin {"idle", "returned", "cancelled"}
    /\ task' = [task EXCEPT ![t].pc = "cancelled",
                            ![t].ret = "CancelledError",
                            ![t].discarded = task[t].pc \in InSellTry]
    /\ active_trades' = IF task[t].pc \in InSellTry
                        THEN active_trades \ {GetUniqueId(task[t].opp)}
                        ELSE active_trades
    /\ dep' = [dep EXCEPT ![t] = DepIdle]
    /\ UNCHANGED <<sel, DRY_RUN, active_operations, xfer, components>>

\* one invocation at a time, each of which may be cancelled
CancelNext ==
    \/ Execute(<<"exec", 1>>, ExecEnv)
    \/ Cancel(<<"exec", 1>>)

CancelSpec == Init /\ [][CancelNext]_vars

\* C18: an execution cancelled before it has made a mutating exchange call
\* leaves no residue: its identity is not in active_trades and no
\* RebalanceOperation is registered, so that a later execution of the same
\* identity is admitted.
C18_CancelledLeavesNoResidue ==
    \A t \in Tasks :
        (task[t].pc = "cancelled" /\ task[t].calls \cap MutatingCalls = {})
            => /\ GetUniqueId(task[t].opp) \notin active_trades
               /\ DOMAIN active_operations = {}


(***************************************************************************)
(* BalanceManager.get_all_balances over two venues.  The balance of a      *)
(* venue is read with one fetch_balance call per parameter set of          *)
(* EXCHANGE_BALANCE_QUERY_PARAMS; an ExchangeBalance is a record           *)
(* [exchange_id, assets], assets being the parameter sets whose holdings   *)
(* were read, and a snapshot is the set of the entries of the dict that    *)
(* is returned.                                                            *)
(***************************************************************************)
\* Config.EXCHANGE_BALANCE_QUERY_PARAMS of the two venues
EXCHANGE_BALANCE_QUERY_PARAMS ==
    [binance |-> <<"spot", "funding">>, mexc |-> <<"default">>]

\* the venues of self.exchanges
BalanceVenues == DOMAIN EXCHANGE_BALANCE_QUERY_PARAMS

\* what a fetch_balance call does: it answers, or raises NetworkError or
\* AuthenticationError, an ExchangeError
FetchBalanceResults == {"ok", "NetworkError", "AuthenticationError"}

\* bound: calls of get_all_balances
MaxBalanceCalls == 2

\* _fetch_single_exchange_aggregated_balance: every error of a call is
\* caught and logged, and the next parameter set is read
FetchSingleExchangeAggregatedBalance(exchange_id, results) ==
    [exchange_id |-> exchange_id,
     assets |-> {EXCHANGE_BALANCE_QUERY_PARAMS[exchange_id][i] :
                    i \in {j \in DOMAIN results : results[j] = "ok"}}]

\* get_all_balances: one entry per venue, then, with USD valuation,
\* _update_all_usd_values, whose error makes the wrapper return {}
GetAllBalances(calculate_usd_values, results) ==
    IF calculate_usd_values THEN GetAllBalancesWithUsdValues
    ELSE {FetchSingleExchangeAggregatedBalance(v, results[v]) :
             v \in BalanceVenues}

\* one call of get_all_balances, as main_loop makes at least once a cycle
GetBalances ==
    /\ Len(balance_manager.returned) < MaxBalanceCalls
    /\ \E usd \in BOOLEAN :
       \E results \in
              [binance : [1..2 -> FetchBalanceResults],
               mexc : [1..1 -> FetchBalanceResults]] :
          balance_manager' =
              [calls |-> [v \in BalanceVenues |->
                             balance_manager.calls[v] \o results[v]],
               returned |-> Append(balance_manager.returned,
                                   [calculate_usd_values |-> usd,
                                    results |-> results,
                                    snapshot |->
                                        GetAllBalances(usd, results)])]
    /\ UNCHANGED <<sel, dep, DRY_RUN, active_trades, task, active_operations,
                   xfer, STABILITY_CYCLES, analyzer, cycles, scanner,
                   trade_log, cache,
                   invocation>>

\* a new BalanceManager
BalanceInit ==
    /\ Parked
    /\ STABILITY_CYCLES = 1
    /\ analyzer = AnalyzerIdle
    /\ cycles = <<>>
    /\ scanner = ScannerIdle
    /\ balance_manager =
           [BalanceManagerIdle EXCEPT
               !.calls = [v \in BalanceVenues |-> <<>>]]
    /\ trade_log = TradeLogIdle
    /\ cache = CacheIdle
    /\ invocation = CallIdle

BalanceNext == GetBalances

BalanceSpec == BalanceInit /\ [][BalanceNext]_vars

\* C19: after an exchange call on a venue has failed with an authentication
\* error, no later exchange call is made on that venue, in the same cycle
\* or a later one.
C19_NoCallAfterAuthenticationError ==
    \A v \in BalanceVenues :
        \A i \in DOMAIN balance_manager.calls[v] :
            balance_manager.calls[v][i] = "AuthenticationError"
                => i = Len(balance_manager.calls[v])

\* C20: get_all_balances returns a snapshot with one entry per configured
\* venue, with and without USD valuation; a venue whose balance fetch
\* failed has an empty balance, and the other venues have theirs.
C20_OneEntryPerVenue ==
    \A k \in DOMAIN balance_manager.returned :
        LET call == balance_manager.returned[k]
        IN  /\ {b.exchange_id : b \in call.snapshot} = BalanceVenues
            /\ Cardinality(call.snapshot) = Cardinality(BalanceVenues)
            /\ \A b \in call.snapshot :
                  /\ (\A i \in DOMAIN call.results[b.exchange_id] :
                         call.results[b.exchange_id][i] # "ok")
                     => b.assets = {}
                  /\ (\A i \in DOMAIN call.results[b.exchange_id] :
                         call.results[b.exchange_id][i] = "ok")
                     => b.assets # {}

\* ---------------------------------------------------------------------------
\* Analyzer._cache_all_currencies_info_for_enrichment: the currency cache and
\* the calls that fill it. The selector, the enrichment and main_loop call it
\* from the tasks of the executor and of the rebalancer.

CacheVenues == {"binance", "mexc"}

CacheCallers == {1, 2}

\* what fetch_currencies gives back, as far as the cache tells them apart
FetchCurrenciesResults == {"dict", "none", "Exception"}

MaxFetches == 3

\* currencies_cache.get(ex_id, {}): what a venue's entry holds after a fetch
\* that brought nothing
RetainedCache(entry) == IF entry = "absent" THEN "empty" ELSE entry

\* the venues whose entry is missing or empty
ExchangesNeedingCurrencyFetch(currencies_cache) ==
    {v \in CacheVenues : currencies_cache[v] \in {"absent", "empty"}}

\* up to the await of gather: the venues to fetch are read from the cache
\* and one fetch_currencies task is created for each of them
CacheCall(c) ==
    /\ cache.callers[c].pc \in {"idle", "returned"}
    /\ LET needing == ExchangesNeedingCurrencyFetch(cache.currencies_cache)
           fetching == {v \in needing : cache.has[v]}
       IN  /\ \A v \in fetching : cache.fetched[v] < MaxFetches
           /\ cache' =
                  [cache EXCEPT
                      !.currencies_cache =
                          [v \in CacheVenues |->
                              IF v \in needing \ fetching
                                  THEN RetainedCache(@[v]) ELSE @[v]],
                      !.fetched =
                          [v \in CacheVenues |->
                              IF v \in fetching THEN @[v] + 1 ELSE @[v]],
                      !.callers[c] =
                          [pc |-> IF fetching = {} THEN "returned"
                                  ELSE "gather",
                           tasks |-> fetching]]
    /\ UNCHANGED <<sel, dep, DRY_RUN, active_trades, task, active_operations,
                   xfer, STABILITY_CYCLES, analyzer, cycles, scanner,
                   balance_manager, trade_log, invocation>>

\* gather has returned: each result is stored, or the entry is retained
CacheGather(c) ==
    /\ cache.callers[c].pc = "gather"
    /\ \E results \in [cache.callers[c].tasks -> FetchCurrenciesResults] :
           cache' =
               [cache EXCEPT
                   !.currencies_cache =
                       [v \in CacheVenues |->
                           IF v \notin cache.callers[c].tasks THEN @[v]
                           ELSE IF results[v] = "dict" THEN "info"
                           ELSE RetainedCache(@[v])],
                   !.callers[c] = [pc |-> "returned", tasks |-> {}]]
    /\ UNCHANGED <<sel, dep, DRY_RUN, active_trades, task, active_operations,
                   xfer, STABILITY_CYCLES, analyzer, cycles, scanner,
                   balance_manager, trade_log, invocation>>

\* a new Analyzer and the tasks that will ask it for currency information
CacheInit ==
    /\ Parked
    /\ STABILITY_CYCLES = 1
    /\ analyzer = AnalyzerIdle
    /\ cycles = <<>>
    /\ scanner = ScannerIdle
    /\ balance_manager = BalanceManagerIdle
    /\ trade_log = TradeLogIdle
    /\ invocation = CallIdle
    /\ \E has \in [CacheVenues -> BOOLEAN] :
           cache = [currencies_cache |-> [v \in CacheVenues |-> "absent"],
                    has |-> has,
                    callers |-> [c \in CacheCallers |->
                                    [pc |-> "idle", tasks |-> {}]],
                    fetched |-> [v \in CacheVenues |-> 0]]

CacheNext == \E c \in CacheCallers : CacheCall(c) \/ CacheGather(c)

CacheSpec == CacheInit /\ [][CacheNext]_vars

\* C21: the currency-metadata cache is single-flighted: of the callers that
\* find a venue's entry missing or empty, at most one has a fetch_currencies
\* of that venue in flight
C21_OneFetchInFlight ==
    \A v \in CacheVenues :
        Cardinality({c \in CacheCallers :
                        /\ cache.callers[c].pc = "gather"
                        /\ v \in cache.callers[c].tasks}) <= 1

\* ---------------------------------------------------------------------------
\* Config.normalize_network_name_for_config applied to a network name and
\* then to its own result.

MaxNameLen == 3

NameAlphabet == {"e", "T", "H", "(", ")", " ", "_", "/"}

\* network names as venues and the fee file spell them
NetworkSpellings ==
    {NETWORK_ALIASES[i][1] : i \in DOMAIN NETWORK_ALIASES}
    \cup {NETWORK_PREFERENCE[i] : i \in DOMAIN NETWORK_PREFERENCE}
    \cup {<<"E","t","h","e","r","e","u","m">>,
          <<"e","t","h"," ","(","E","R","C","2","0",")">>,
          <<" ","E","T","H","/","E","R","C","2","0">>,
          <<"E","R","C","-","2","0">>,
          <<"e","r","c"," ","2","0">>,
          <<"B","e","p","2","0"," ","(","B","S","C",")">>,
          <<"b","s","c","(","B","E","P","2","0",")">>,
          <<"T","R","X","-","(","T","R","C","2","0",")">>,
          <<"S","O","L">>,
          <<"x"," ","-","y">>}

\* the names of n characters over the alphabet
RECURSIVE NamesOfLen(_)
NamesOfLen(n) ==
    IF n = 0 THEN {<<>>}
    ELSE {Append(s, c) : s \in NamesOfLen(n - 1), c \in NameAlphabet}

NetworkNames ==
    NetworkSpellings \cup UNION {NamesOfLen(n) : n \in 0..MaxNameLen}

\* one more application, to the name given or to the last result
NormalizeNetworkName ==
    /\ ~invocation.done
    /\ invocation' =
           [invocation EXCEPT
               !.out = Append(@, Normalize(IF @ = <<>> THEN invocation.in
                                           ELSE @[Len(@)])),
               !.done = Len(invocation.out) = 1]
    /\ UNCHANGED <<sel, dep, DRY_RUN, active_trades, task, active_operations,
                   xfer, STABILITY_CYCLES, analyzer, cycles, scanner,
                   balance_manager, trade_log, cache>>

NormInit ==
    /\ Parked
    /\ STABILITY_CYCLES = 1
    /\ analyzer = AnalyzerIdle
    /\ cycles = <<>>
    /\ scanner = ScannerIdle
    /\ balance_manager = BalanceManagerIdle
    /\ trade_log = TradeLogIdle
    /\ cache = CacheIdle
    /\ invocation \in [of : {"normalize_network_name_for_config"},
                       in : NetworkNames, out : {<<>>}, done : {FALSE}]

NormNext == NormalizeNetworkName

NormSpec == NormInit /\ [][NormNext]_vars

\* C22: normalising a normalised name gives the same name, and a name that
\* is, in any letter case, a key of NETWORK_ALIASES is normalised to that
\* key's standard name
C22_NormalizeIdempotentOnAliases ==
    /\ Len(invocation.out) = 2 => invocation.out[2] = invocation.out[1]
    /\ Len(invocation.out) >= 1 =>
           \A i \in DOMAIN NETWORK_ALIASES :
               Upper(invocation.in) = NETWORK_ALIASES[i][1] =>
                   invocation.out[1] = NETWORK_ALIASES[i][2]

\* Ethereum has been normalised twice
C22_EthereumTwice ==
    /\ invocation.in = <<"E","t","h","e","r","e","u","m">>
    /\ invocation.out = <<Net.ERC20, Net.ERC20>>

\* ---------------------------------------------------------------------------
\* The amounts that reach a venue: market orders, internal transfers and
\* withdrawals. Amounts are counted in halves of the venue's step for the
\* asset; DRY_RUN is off.

MaxSubmitAmount == 5

\* exchange.amount_to_precision: ccxt truncates the amount to the market's
\* amount precision
AmountToPrecision(amount) == (amount \div 2) * 2

\* the amount of create_market_buy_order, <<>> when no order is placed
MarketBuyAmount(amount_base_to_buy_approx, min_amount_buy, affordable) ==
    LET amount_to_buy_for_order_call ==
            AmountToPrecision(amount_base_to_buy_approx)
    IN  IF amount_to_buy_for_order_call < min_amount_buy /\ min_amount_buy > 0
        THEN IF affordable THEN <<min_amount_buy>> ELSE <<>>
        ELSE <<amount_to_buy_for_order_call>>

\* the amount of create_market_sell_order, <<>> when no order is placed
MarketSellAmount(amount_to_sell_final_on_trading, min_sell_amount) ==
    LET amount_for_sell_order_call ==
            AmountToPrecision(amount_to_sell_final_on_trading)
    IN  IF amount_for_sell_order_call < min_sell_amount /\ min_sell_amount > 0
        THEN <<>>
        ELSE IF amount_for_sell_order_call <= 0 THEN <<>>
        ELSE <<amount_for_sell_order_call>>

\* Rebalancer._internal_transfer_if_needed on a venue with separate
\* accounts: the amount of exchange.transfer, <<>> when none is made
InternalTransferAmount(required_amount_in_target_account, target_bal, min_transfer, source_bal) ==
    LET amount_to_transfer == required_amount_in_target_account - target_bal
    IN  IF target_bal >= required_amount_in_target_account THEN <<>>
        ELSE IF amount_to_transfer < min_transfer THEN <<>>
        ELSE IF source_bal < amount_to_transfer THEN <<>>
        ELSE <<amount_to_transfer>>

\* Rebalancer._execute_withdrawal_generic, the fee charged in the asset:
\* the amount of exchange.withdraw, <<>> when the call is not made
WithdrawalAmount(amount, min_wd_native, net_fee_native) ==
    IF amount < min_wd_native THEN <<>>
    ELSE IF amount <= net_fee_native THEN <<>>
    ELSE <<amount>>

\* the venue calls of the executor and of the rebalancer that carry an
\* amount
SubmittingCalls ==
    {"create_market_buy_order", "create_market_sell_order",
     "execute_arbitrage.transfer", "execute_arbitrage.withdraw",
     "transfer_asset_between_exchanges.withdraw"}

\* what a call submits for its arguments
SubmittedAmount(site, in) ==
    CASE site = "create_market_buy_order" ->
             MarketBuyAmount(in.amount, in.min, in.flag)
      [] site = "create_market_sell_order" ->
             MarketSellAmount(in.amount, in.min)
      [] site = "execute_arbitrage.transfer" ->
             InternalTransferAmount(in.amount, in.held, in.min,
                                    IF in.flag THEN in.amount ELSE 0)
      [] site = "execute_arbitrage.withdraw" ->
             WithdrawalAmount(in.amount, in.min, in.held)
      [] site = "transfer_asset_between_exchanges.withdraw" ->
             IF Quantize(in.amount) <= 0 THEN <<>>
             ELSE WithdrawalAmount(Quantize(in.amount), in.min, in.held)

\* the call reaches the venue, or returns before it
Submit ==
    /\ ~invocation.done
    /\ invocation' =
           [invocation EXCEPT
               !.out = SubmittedAmount(invocation.of, invocation.in),
               !.done = TRUE]
    /\ UNCHANGED <<sel, dep, DRY_RUN, active_trades, task, active_operations,
                   xfer, STABILITY_CYCLES, analyzer, cycles, scanner,
                   balance_manager, trade_log, cache>>

SubmitInit ==
    /\ Parked
    /\ STABILITY_CYCLES = 1
    /\ analyzer = AnalyzerIdle
    /\ cycles = <<>>
    /\ scanner = ScannerIdle
    /\ balance_manager = BalanceManagerIdle
    /\ trade_log = TradeLogIdle
    /\ cache = CacheIdle
    /\ invocation \in [of : SubmittingCalls,
                       in : [amount : 1..MaxSubmitAmount, min : {0, 4},
                             held : {0, 1}, flag : BOOLEAN],
                       out : {<<>>}, done : {FALSE}]

SubmitNext == Submit

SubmitSpec == SubmitInit /\ [][SubmitNext]_vars

\* C23: every amount submitted in a market order, an internal transfer or a
\* withdrawal is a multiple of the step and not above the unrounded amount
C23_SubmittedAmountsRoundedDown ==
    invocation.done /\ invocation.out # <<>> =>
        /\ invocation.out[1] % 2 = 0
        /\ invocation.out[1] <= invocation.in.amount

\* ---------------------------------------------------------------------------
\* Analyzer.analyze_and_select_best from the whitelist/blacklist walk on:
\* the walk over each enriched opportunity's potential_networks, the net
\* profit filter, the order by net profit and the depth check of both legs.
\* Profit and fee percentages are counted in tenths of a percent, base
\* amounts in twentieths of the asset, a network's fee_native in
\* ten-thousandths of the asset; fees are charged in the base asset.

\* Config.TRADE_AMOUNT_USD
TRADE_AMOUNT_USD == 10

\* Config.MIN_PROFIT_THRESHOLD_NET, in tenths of a percent
MIN_PROFIT_THRESHOLD_NET == 4

\* Config.MIN_LIQUIDITY_USD
MIN_LIQUIDITY_USD == 200

\* the entries of Config.ARB_PATH_BLACKLIST that the paths of this model hit
ARB_PATH_BLACKLIST ==
    {<<"SAHARA", "binance", "kucoin", Net.ERC20>>,
     <<"SAHARA", "binance", "kucoin", Net.BEP20>>}

\* (asset, buy venue, sell venue, network) of a network of an opportunity
CurrentPathTuple(opp, net_detail) ==
    <<opp.base_asset, opp.buy_exchange_id, opp.sell_exchange_id,
      Upper(net_detail.normalized_name)>>

\* every network is let through
AnyPathAllowed(opp, net_detail, whitelist, enforce) == TRUE

\* the network is neither blacklisted for the path nor, under whitelist
\* enforcement, missing from the whitelist
PathAllowed(opp, net_detail, whitelist, enforce) ==
    /\ CurrentPathTuple(opp, net_detail) \notin ARB_PATH_BLACKLIST
    /\ enforce => CurrentPathTuple(opp, net_detail) \in whitelist

\* the withdrawal fee as a percentage of the trade amount
WithdrawalFeePct(opp, net_detail) ==
    (net_detail.fee_native * opp.buy_price) \div (TRADE_AMOUNT_USD * 10)

\* gross profit less both taker fees and the withdrawal fee
NetProfitPct(opp, net_detail) ==
    opp.gross_profit_pct - opp.buy_fee_pct - opp.sell_fee_pct
        - WithdrawalFeePct(opp, net_detail)

\* _enrich_opportunities_with_fees: the first potential network is chosen
\* and the net profit computed with its fee
Enrich(opp) ==
    IF opp.potential_networks = <<>>
    THEN [opp EXCEPT !.chosen_network_details = <<>>,
                     !.net_profit_pct = <<>>]
    ELSE [opp EXCEPT
             !.chosen_network_details = <<opp.potential_networks[1]>>,
             !.net_profit_pct = <<NetProfitPct(opp, opp.potential_networks[1])>>]

\* the walk over one opportunity from its i-th network on: <<>> when no
\* network is left, else the opportunity with the network chosen and, when
\* it is not the one of the enrichment, the net profit computed again
RECURSIVE WalkNetworks(_, _, _, _)
WalkNetworks(opp, i, whitelist, enforce) ==
    IF i > Len(opp.potential_networks) THEN <<>>
    ELSE LET net_detail == opp.potential_networks[i]
         IN  IF ~PathAllowed(opp, net_detail, whitelist, enforce)
             THEN WalkNetworks(opp, i + 1, whitelist, enforce)
             ELSE <<[opp EXCEPT
                        !.chosen_network_details = <<net_detail>>,
                        !.net_profit_pct =
                            IF /\ opp.chosen_network_details # <<>>
                               /\ opp.chosen_network_details[1].normalized_name
                                      = net_detail.normalized_name
                            THEN @
                            ELSE <<NetProfitPct(opp, net_detail)>>]>>

\* final_candidate_opportunities
RECURSIVE FinalCandidateOpportunities(_, _, _)
FinalCandidateOpportunities(enriched, whitelist, enforce) ==
    IF enriched = <<>> THEN <<>>
    ELSE WalkNetworks(Head(enriched), 1, whitelist, enforce)
         \o FinalCandidateOpportunities(Tail(enriched), whitelist, enforce)

\* every opportunity counts as net profitable
AnyNetProfit(opp) == TRUE

\* the net profit is known and at least the threshold
NetProfitable(opp) ==
    /\ opp.net_profit_pct # <<>>
    /\ opp.net_profit_pct[1] >= MIN_PROFIT_THRESHOLD_NET

\* list.sort(key=net_profit_pct, reverse=True): a stable sort
RECURSIVE SortByNetProfit(_)
SortByNetProfit(opps) ==
    IF opps = <<>> THEN <<>>
    ELSE LET rest == SortByNetProfit(Tail(opps))
             o == Head(opps)
             before == SelectSeq(rest, LAMBDA r :
                           r.net_profit_pct[1] > o.net_profit_pct[1])
             after == SelectSeq(rest, LAMBDA r :
                           r.net_profit_pct[1] <= o.net_profit_pct[1])
         IN  before \o <<o>> \o after

\* the quote value of the first n levels
RECURSIVE LevelsValue(_, _)
LevelsValue(relevant_orders, n) ==
    IF n = 0 THEN 0
    ELSE LevelsValue(relevant_orders, n - 1)
         + relevant_orders[n][1] * relevant_orders[n][2]

\* the level's price is beyond the slippage limit of 1 percent
BeyondLimit(side, price, price_target) ==
    IF side = "buy" THEN price * 100 > price_target * 101
    ELSE price * 100 < price_target * 99

\* the accumulation loop from level i on: [base, cost] taken so far
RECURSIVE Accumulate(_, _, _, _, _, _)
Accumulate(side, amount_base, price_target, relevant_orders, i, acc) ==
    IF i > Len(relevant_orders) THEN acc
    ELSE IF BeyondLimit(side, relevant_orders[i][1], price_target) THEN acc
    ELSE LET remaining == amount_base - acc.base
             can_take_from_level ==
                 IF relevant_orders[i][2] < remaining
                 THEN relevant_orders[i][2] ELSE remaining
             next == [base |-> acc.base + can_take_from_level,
                      cost |-> acc.cost
                               + can_take_from_level * relevant_orders[i][1]]
         IN  IF next.base >= amount_base THEN next
             ELSE Accumulate(side, amount_base, price_target,
                             relevant_orders, i + 1, next)

\* the visible liquidity is never too small
NeverTooThin(total_visible_liquidity_usd) == FALSE

\* total_visible_liquidity_usd < Config.MIN_LIQUIDITY_USD, the total counted
\* in twentieths of USDT
TooThin(total_visible_liquidity_usd) ==
    total_visible_liquidity_usd < MIN_LIQUIDITY_USD * 20

\* Analyzer._check_orderbook_liquidity on a venue with fetchOrderBook;
\* orderbook is [raised, orders], orders the asks for a buy and the bids for
\* a sell
CheckOrderbookLiquidity(side, amount_base, price_target, orderbook) ==
    LET relevant_orders == orderbook.orders
        filled == Accumulate(side, amount_base, price_target, relevant_orders,
                             1, [base |-> 0, cost |-> 0])
    IN  IF orderbook.raised THEN FALSE
        ELSE IF relevant_orders = <<>> THEN FALSE
        ELSE IF TooThin(LevelsValue(relevant_orders, Len(relevant_orders)))
        THEN FALSE
        ELSE IF filled.base < amount_base THEN FALSE
        ELSE IF side = "buy"
        THEN ~(filled.cost * 100 > price_target * 101 * filled.base)
        ELSE ~(filled.cost * 100 < price_target * 99 * filled.base)

\* Executor._check_liquidity_for_trade_leg
CheckLiquidityForTradeLeg(side, amount_to_trade, price_target, is_base_amount, orderbook) ==
    LET amount_base_equivalent ==
            IF is_base_amount THEN amount_to_trade
            ELSE (amount_to_trade * 20) \div price_target
    IN  IF ~is_base_amount /\ price_target <= 0 THEN FALSE
        ELSE IF amount_base_equivalent <= 0 THEN TRUE
        ELSE CheckOrderbookLiquidity(side, amount_base_equivalent,
                                     price_target, orderbook)

\* the depth check of both legs of a candidate
LegsLiquid(opp) ==
    LET approx_base_amount ==
            IF opp.buy_price > 0
            THEN (TRADE_AMOUNT_USD * 20) \div opp.buy_price ELSE 0
    IN  [buy |-> CheckLiquidityForTradeLeg("buy", TRADE_AMOUNT_USD,
                                           opp.buy_price, FALSE, opp.asks),
         sell |-> IF approx_base_amount > 0
                  THEN CheckLiquidityForTradeLeg("sell", approx_base_amount,
                                                 opp.sell_price, TRUE,
                                                 opp.bids)
                  ELSE FALSE]

\* the loop over the candidates in order of net profit: the candidates
\* checked, and the first that is liquid on both legs
RECURSIVE FirstLiquid(_, _)
FirstLiquid(candidates, checked) ==
    IF candidates = <<>> THEN [checked |-> checked, best |-> <<>>]
    ELSE LET o == Head(candidates)
             legs == LegsLiquid(o)
             seen == Append(checked, [uid |-> GetUniqueId(o), buy |-> legs.buy,
                                      sell |-> legs.sell])
         IN  IF o.chosen_network_details = <<>>
             THEN FirstLiquid(Tail(candidates), checked)
             ELSE IF legs.buy /\ legs.sell
             THEN [checked |-> seen, best |-> <<o>>]
             ELSE FirstLiquid(Tail(candidates), seen)

\* analyze_and_select_best after the enrichment: the survivors of the walk,
\* the depth checks made and the opportunity returned
SelectBest(enriched, whitelist, enforce) ==
    LET final_candidate_opportunities ==
            FinalCandidateOpportunities(enriched, whitelist, enforce)
        net_profitable_opportunities ==
            SortByNetProfit(SelectSeq(final_candidate_opportunities,
                                      NetProfitable))
        found == FirstLiquid(net_profitable_opportunities, <<>>)
    IN  [final_candidates |-> final_candidate_opportunities,
         checked |-> found.checked,
         best |-> found.best]

\* ---------------------------------------------------------------------------
\* Calls of analyze_and_select_best on enriched stable opportunities.

MaxLevels == 2

\* the networks the selector may rank for an opportunity
NetworkDetails ==
    {[normalized_name |-> Net.ERC20, fee_native |-> 46],
     [normalized_name |-> Net.BEP20, fee_native |-> 10],
     [normalized_name |-> Net.TRC20, fee_native |-> 30]}

\* the lists of n networks, none twice
RECURSIVE NetworkListsOfLen(_)
NetworkListsOfLen(n) ==
    IF n = 0 THEN {<<>>}
    ELSE {l \in {Append(k, d) : k \in NetworkListsOfLen(n - 1),
                                d \in NetworkDetails} :
             \A i \in 1..(n - 1) : l[i] # l[n]}

NetworkLists == UNION {NetworkListsOfLen(n) : n \in 0..3}

LevelPrices(side) == IF side = "buy" THEN {100, 101, 102} ELSE {103, 104, 105}

LevelAmounts == {1, 2, 40}

\* the books of n levels as fetch_order_book returns them: asks by rising,
\* bids by falling price
RECURSIVE BooksOfLen(_, _)
BooksOfLen(side, n) ==
    IF n = 0 THEN {<<>>}
    ELSE {b \in {Append(c, <<p, a>>) : c \in BooksOfLen(side, n - 1),
                                       p \in LevelPrices(side),
                                       a \in LevelAmounts} :
             n = 1 \/ IF side = "buy" THEN b[n - 1][1] < b[n][1]
                      ELSE b[n - 1][1] > b[n][1]}

\* what fetch_order_book gives: an error, or a book of up to MaxLevels
\* levels
OrderBooks(side) ==
    {[raised |-> TRUE, orders |-> <<>>]}
    \cup {[raised |-> FALSE, orders |-> b] :
             b \in UNION {BooksOfLen(side, n) : n \in 0..MaxLevels}}

\* a deep and a thin book
FewBooks(side) ==
    IF side = "buy"
    THEN {[raised |-> FALSE, orders |-> << <<100, 40>> >>],
          [raised |-> FALSE, orders |-> << <<100, 1>>, <<102, 40>> >>]}
    ELSE {[raised |-> FALSE, orders |-> << <<105, 40>> >>],
          [raised |-> FALSE, orders |-> << <<105, 2>> >>]}

\* a stable opportunity as the scanner made it, with the networks the
\* selector ranks for it and the books of its venues
StableOpportunity(base, buy_ex, sell_ex, networks, asks, bids) ==
    [base_asset |-> base, buy_exchange_id |-> buy_ex,
     sell_exchange_id |-> sell_ex, buy_price |-> 100, sell_price |-> 105,
     gross_profit_pct |-> 50, buy_fee_pct |-> 1, sell_fee_pct |-> 1,
     potential_networks |-> networks, chosen_network_details |-> <<>>,
     net_profit_pct |-> <<>>, asks |-> asks, bids |-> bids]

\* Config.ARB_WHITELIST and Config.ENFORCE_WHITELIST_ONLY: as the source
\* sets them, and with enforcement on
WhitelistSettings ==
    {[whitelist |-> {}, enforce |-> FALSE],
     [whitelist |-> {}, enforce |-> TRUE],
     [whitelist |-> {<<"SAHARA", "binance", "kucoin", Net.TRC20>>,
                     <<"XRP", "binance", "mexc", Net.ERC20>>,
                     <<"XRP", "binance", "mexc", Net.BEP20>>},
      enforce |-> TRUE]}

\* one opportunity against every book, and two opportunities with every
\* ranking of networks
SelectBestInputs ==
    {[opportunities |->
          <<StableOpportunity("XRP", "binance", "mexc",
                <<[normalized_name |-> Net.BEP20, fee_native |-> 10]>>,
                asks, bids)>>,
      whitelist |-> {}, enforce |-> FALSE] :
         asks \in OrderBooks("buy"), bids \in OrderBooks("sell")}
    \cup
    {[opportunities |->
          <<StableOpportunity("SAHARA", "binance", "kucoin", n1, a1, b1),
            StableOpportunity("XRP", "binance", "mexc", n2, a2, b2)>>,
      whitelist |-> w.whitelist, enforce |-> w.enforce] :
         n1 \in NetworkLists, n2 \in NetworkListsOfLen(2),
         a1 \in FewBooks("buy"), b1 \in FewBooks("sell"),
         a2 \in FewBooks("buy"), b2 \in {[raised |-> FALSE,
                                          orders |-> << <<105, 40>> >>]},
         w \in WhitelistSettings}

\* the enriched opportunities
RECURSIVE EnrichAll(_)
EnrichAll(opps) ==
    IF opps = <<>> THEN <<>>
    ELSE <<Enrich(Head(opps))>> \o EnrichAll(Tail(opps))

\* one call, from the enrichment to the return
SelectBestOpportunity ==
    /\ ~invocation.done
    /\ invocation' =
           [invocation EXCEPT
               !.out = <<SelectBest(EnrichAll(invocation.in.opportunities),
                                    invocation.in.whitelist,
                                    invocation.in.enforce)>>,
               !.done = TRUE]
    /\ UNCHANGED <<sel, dep, DRY_RUN, active_trades, task, active_operations,
                   xfer, STABILITY_CYCLES, analyzer, cycles, scanner,
                   balance_manager, trade_log, cache>>

BestInit ==
    /\ Parked
    /\ STABILITY_CYCLES = 1
    /\ analyzer = AnalyzerIdle
    /\ cycles = <<>>
    /\ scanner = ScannerIdle
    /\ balance_manager = BalanceManagerIdle
    /\ trade_log = TradeLogIdle
    /\ cache = CacheIdle
    /\ invocation \in [of : {"analyze_and_select_best"},
                       in : SelectBestInputs, out : {<<>>}, done : {FALSE}]

BestNext == SelectBestOpportunity

BestSpec == BestInit /\ [][BestNext]_vars

\* the positions of the opportunity's networks that the path blacklist and
\* the whitelist setting let through
AllowedPositions(opp, whitelist, enforce) ==
    {i \in DOMAIN opp.potential_networks :
        LET path == <<opp.base_asset, opp.buy_exchange_id,
                      opp.sell_exchange_id,
                      opp.potential_networks[i].normalized_name>>
        IN  /\ path \notin ARB_PATH_BLACKLIST
            /\ enforce => path \in whitelist}

\* the survivors of the walk that carry the identity of opp
Survivors(opp) ==
    {k \in DOMAIN invocation.out[1].final_candidates :
        GetUniqueId(invocation.out[1].final_candidates[k]) = GetUniqueId(opp)}

\* C26: an opportunity survives the walk with the first of its potential
\* networks that is not in the path blacklist and, under whitelist
\* enforcement, is in the whitelist; an opportunity with no such network
\* does not survive
C26_FirstAllowedNetworkChosen ==
    invocation.of = "analyze_and_select_best" /\ invocation.done =>
        \A j \in DOMAIN invocation.in.opportunities :
            LET opp == invocation.in.opportunities[j]
                allowed == AllowedPositions(opp, invocation.in.whitelist,
                                            invocation.in.enforce)
            IN  IF allowed = {} THEN Survivors(opp) = {}
                ELSE /\ Cardinality(Survivors(opp)) = 1
                     /\ \A k \in Survivors(opp) :
                           invocation.out[1].final_candidates[k]
                               .chosen_network_details
                           = <<opp.potential_networks[
                                  CHOOSE i \in allowed :
                                      \A h \in allowed : i <= h]>>

\* an opportunity survived with its third network, the first two being
\* blacklisted for its path
C26_ThirdNetworkChosen ==
    /\ invocation.of = "analyze_and_select_best"
    /\ invocation.done
    /\ \E k \in DOMAIN invocation.out[1].final_candidates :
          LET c == invocation.out[1].final_candidates[k]
          IN  /\ Len(c.potential_networks) = 3
              /\ c.chosen_network_details = <<c.potential_networks[3]>>

\* the amount offered by the first n levels priced within 1 percent of the
\* target on the side's adverse side
RECURSIVE WithinBandAmount(_, _, _, _)
WithinBandAmount(side, price_target, orders, n) ==
    IF n = 0 THEN 0
    ELSE WithinBandAmount(side, price_target, orders, n - 1)
         + IF \/ side = "buy" /\ orders[n][1] * 100 <= price_target * 101
              \/ side = "sell" /\ orders[n][1] * 100 >= price_target * 99
           THEN orders[n][2] ELSE 0

\* the book was fetched, its visible liquidity is at least MIN_LIQUIDITY_USD,
\* its levels within the band cover the amount, and the fill's average
\* price is within the band
DepthSuffices(side, amount_base, price_target, orderbook) ==
    LET orders == orderbook.orders
        filled == Accumulate(side, amount_base, price_target, orders, 1,
                             [base |-> 0, cost |-> 0])
    IN  /\ ~orderbook.raised
        /\ LevelsValue(orders, Len(orders)) >= MIN_LIQUIDITY_USD * 20
        /\ WithinBandAmount(side, price_target, orders, Len(orders))
               >= amount_base
        /\ IF side = "buy"
           THEN filled.cost * 100 <= price_target * 101 * filled.base
           ELSE filled.cost * 100 >= price_target * 99 * filled.base

LiquidSurvivors(result) ==
    {k \in DOMAIN result.final_candidates :
        /\ LegsLiquid(result.final_candidates[k]).buy
        /\ LegsLiquid(result.final_candidates[k]).sell}

\* best is one of the candidates at positions among, and none of them has a
\* higher net profit
BestAmong(result, among) ==
    IF among = {} THEN result.best = <<>>
    ELSE /\ result.best # <<>>
         /\ \E k \in among :
               GetUniqueId(result.final_candidates[k])
                   = GetUniqueId(result.best[1])
         /\ \A k \in among :
               result.final_candidates[k].net_profit_pct[1]
                   <= result.best[1].net_profit_pct[1]

\* C29 as stated: the opportunity returned is the survivor of the walk with
\* the highest net profit among those liquid on both legs, and none is
\* returned only when no survivor is liquid on both legs
C29_BestLiquidSurvivor ==
    invocation.of = "analyze_and_select_best" /\ invocation.done =>
        BestAmong(invocation.out[1], LiquidSurvivors(invocation.out[1]))

\* C29 amended: the same among the survivors whose net profit is at least
\* MIN_PROFIT_THRESHOLD_NET
C29_BestLiquidNetProfitableSurvivor ==
    invocation.of = "analyze_and_select_best" /\ invocation.done =>
        BestAmong(invocation.out[1],
                  {k \in LiquidSurvivors(invocation.out[1]) :
                      invocation.out[1].final_candidates[k].net_profit_pct[1]
                          >= MIN_PROFIT_THRESHOLD_NET})

\* the opportunity returned came after a survivor of higher net profit that
\* failed the depth check
C29_SecondBestReturned ==
    /\ invocation.of = "analyze_and_select_best"
    /\ invocation.done
    /\ invocation.out[1].best # <<>>
    /\ \E k \in DOMAIN invocation.out[1].final_candidates :
          /\ invocation.out[1].final_candidates[k].net_profit_pct[1]
                 > invocation.out[1].best[1].net_profit_pct[1]
          /\ k \notin LiquidSurvivors(invocation.out[1])

(***************************************************************************)
(* The values of a trade's status.  CompletedArbitrageLog starts at        *)
(* PENDING; execute_arbitrage assigns the others.                          *)
(***************************************************************************)
ProgressStates ==
    <<"PENDING", "BUY_LEG_PENDING", "BUY_LEG_FILLED", "TRANSFER_LEG_PENDING",
      "TRANSFER_LEG_INITIATED_WAITING_ARRIVAL", "SELL_LEG_PENDING">>

CompletedStates ==
    {"COMPLETED_SUCCESS", "COMPLETED_LOSS", "COMPLETED_UNKNOWN_PROFIT"}

\* the statuses execute_arbitrage assigns in the families SETUP_ERROR_*,
\* BUY_LEG_FAILED[_*], JIT_FUNDING_FAILED_*, TRANSFER_LEG_FAILED_* and
\* SELL_LEG_FAILED[_*]
FailureStates ==
    {"SETUP_ERROR_INSUFFICIENT_LIQUIDITY_PRE_CHECK",
     "SETUP_ERROR_EXCHANGE_INSTANCE",
     "BUY_LEG_FAILED", "BUY_LEG_FAILED_BALANCE_CHECK",
     "BUY_LEG_FAILED_BALANCE_CHECK_POST_CONV",
     "BUY_LEG_FAILED_INTERNAL_TRANSFER_USDT", "BUY_LEG_FAILED_UNEXPECTED",
     "JIT_FUNDING_FAILED_BALANCE_CHECK",
     "JIT_FUNDING_FAILED_INSUFFICIENT_POST_WAIT",
     "JIT_FUNDING_FAILED_TRANSFER_INIT",
     "TRANSFER_LEG_FAILED_PRE_CHECK", "TRANSFER_LEG_FAILED_NO_NETWORK_LIST",
     "TRANSFER_LEG_FAILED_NO_CHOSEN_NETWORK",
     "TRANSFER_LEG_FAILED_INTERNAL_TRANSFER_BASE",
     "TRANSFER_LEG_FAILED_DEPOSIT_ADDRESS",
     "TRANSFER_LEG_FAILED_WITHDRAWAL_EXEC", "TRANSFER_LEG_FAILED_NOT_ARRIVED",
     "SELL_LEG_FAILED", "SELL_LEG_FAILED_BALANCE_PRE_SELL",
     "SELL_LEG_FAILED_INTERNAL_TRANSFER_BASE", "SELL_LEG_FAILED_UNEXPECTED"}

\* the first n values of the trail are the first n progress states
ProgressPrefix(trail, n) ==
    /\ n <= Len(ProgressStates)
    /\ \A i \in 1..n : trail[i] = ProgressStates[i]

\* the trail walks the progress states in order, none skipped, and ends
\* there, or in one completed state after the last of them, or in one of
\* the given failure states after any of them
OrderedTrail(trail, failures) ==
    LET n == Len(trail)
    IN  /\ n >= 1
        /\ \/ ProgressPrefix(trail, n)
           \/ /\ n >= 2
              /\ ProgressPrefix(trail, n - 1)
              /\ \/ trail[n] \in failures
                 \/ /\ n - 1 = Len(ProgressStates)
                    /\ trail[n] \in CompletedStates

\* C24 as stated: the status of every trade takes the progress states
\* PENDING .. SELL_LEG_PENDING in that order, none skipped, then a
\* COMPLETED_* state, or moves at any point to a failure state of the
\* families SETUP_ERROR_*, BUY_LEG_FAILED*, JIT_FUNDING_FAILED_*,
\* TRANSFER_LEG_FAILED_*, SELL_LEG_FAILED*, and never leaves a completed or
\* failure state.
C24_StatusFollowsProgressOrder ==
    \A t \in DOMAIN task : OrderedTrail(task[t].trail, FailureStates)

\* C24, amended: the same, the terminal failure states including
\* INVALID_DATA_PRICE_ERROR, which a buy price of zero or less ends in.
C24_StatusFollowsProgressOrderOrInvalidPrice ==
    \A t \in DOMAIN task :
        /\ OrderedTrail(task[t].trail,
                        FailureStates \cup {"INVALID_DATA_PRICE_ERROR"})
        /\ task[t].status = task[t].trail[Len(task[t].trail)]

\* a trade that went through every progress state and completed
C24_FullTrailCompleted ==
    \E t \in DOMAIN task :
        /\ Len(task[t].trail) = Len(ProgressStates) + 1
        /\ task[t].trail[Len(task[t].trail)] \in CompletedStates
        /\ ProgressPrefix(task[t].trail, Len(ProgressStates))

(***************************************************************************)
(* The identity analyze_and_select_best returns and the stability table.   *)
(***************************************************************************)
\* the cycles after cycle k up to cycle m whose scan reported identity u
LaterScansWith(u, k, m) ==
    {j \in DOMAIN cycles : k < j /\ j <= m /\ u \in cycles[j].scan}

\* C25: the opportunity analyze_and_select_best returns is absent from the
\* stability table when the call returns, and the same identity is not
\* returned again by a later call before at least STABILITY_CYCLES later
\* scans have reported it.
C25_ReturnedIdentityStartsOver ==
    /\ (cycles # <<>> /\ cycles[Len(cycles)].best # <<>>)
           => cycles[Len(cycles)].best[1]
                  \notin DOMAIN analyzer.stable_candidates
    /\ \A k, m \in DOMAIN cycles :
           (k < m /\ cycles[k].best # <<>> /\ cycles[m].best = cycles[k].best)
               => Cardinality(LaterScansWith(cycles[k].best[1], k, m))
                      >= STABILITY_CYCLES

\* with two cycles required, an identity was returned, reported again by the
\* next two scans and returned a second time
C25_ReturnedAgainAfterTwoScans ==
    /\ STABILITY_CYCLES = 2
    /\ \E k, m \in DOMAIN cycles :
           /\ k < m
           /\ cycles[k].best # <<>>
           /\ cycles[m].best = cycles[k].best
           /\ cycles[m].best[1] \notin DOMAIN analyzer.stable_candidates

(***************************************************************************)
(* The entries of the stability table from one call of                     *)
(* analyze_and_select_best to the next.                                    *)
(***************************************************************************)
\* the entries of the table are marked exactly from STABILITY_CYCLES on
MarkedFromRequiredCount(stable_candidates) ==
    \A u \in DOMAIN stable_candidates :
        stable_candidates[u].is_stable
            <=> stable_candidates[u].stability_count >= STABILITY_CYCLES

\* C28: after every call of analyze_and_select_best each entry of the
\* stability table has is_stable true if and only if its observation count
\* is at least STABILITY_CYCLES, and the count is 1 at the insertion of the
\* entry and grows by exactly 1 with each scan that reports the identity.
C28_StableIffCountReached ==
    [][LET before == analyzer.stable_candidates
           after  == analyzer'.stable_candidates
           scan   == cycles'[Len(cycles')].scan
       IN  /\ MarkedFromRequiredCount(after)
           /\ \A u \in DOMAIN after :
                 after[u].stability_count =
                     IF u \notin DOMAIN before THEN 1
                     ELSE IF u \in scan
                     THEN before[u].stability_count + 1
                     ELSE before[u].stability_count]_vars

\* with two cycles required, the table holds an entry counted three times
\* and marked next to one counted once and not marked
C28_MarkedAndUnmarkedEntries ==
    /\ STABILITY_CYCLES = 2
    /\ \E u, v \in DOMAIN analyzer.stable_candidates :
           /\ analyzer.stable_candidates[u].stability_count = 3
           /\ analyzer.stable_candidates[u].is_stable
           /\ analyzer.stable_candidates[v].stability_count = 1
           /\ ~analyzer.stable_candidates[v].is_stable

(***************************************************************************)
(* Executor._wait_for_asset_arrival.  Amounts are whole multiples of 1e-8; *)
(* a balance read is <<>> where get_specific_account_balance returned      *)
(* None, else <<free balance>>, which is 0 for a response without the      *)
(* asset.  The invocation is a record                                      *)
(*   [of, in, initial, i, reads, out, done]                                *)
(* with in the expected increase and the number of checks, initial the     *)
(* local initial_balance_before_wait, i the loop index, reads every        *)
(* balance read the call made, in order, and out what it returned.         *)
(***************************************************************************)
\* DECIMAL_COMPARISON_EPSILON, in units of 1e-8
DECIMAL_COMPARISON_EPSILON == 1

\* bound: the free balance an account shows
MaxArrivalBalance == 3

\* bound: num_checks, wait_seconds // check_interval + 1
MaxChecks == 3

\* what get_specific_account_balance returns
BalanceReads == {<<>>} \cup {<<b>> : b \in 0..MaxArrivalBalance}

\* the arrival test read against the total balance instead of the net
\* increase
ArrivedInTotal(current_balance, initial_balance_before_wait, expected) ==
    current_balance >= expected - DECIMAL_COMPARISON_EPSILON

\* arrived_amount_net >= expected_min_amount_increase - epsilon
Arrived(current_balance, initial_balance_before_wait, expected) ==
    current_balance - initial_balance_before_wait
        >= expected - DECIMAL_COMPARISON_EPSILON

\* the call after the read r of the initial balance; None ends the wait
\* with None
InitialRead(call, r) ==
    [call EXCEPT !.reads = <<r>>, !.initial = r, !.done = (r = <<>>)]

\* the call after one pass of the loop that read r: a balance read that
\* confirms the arrival returns the balance read; the last pass without one
\* returns None
Check(call, r) ==
    LET confirmed == /\ r # <<>>
                     /\ Arrived(r[1], call.initial[1], call.in.expected)
    IN  [call EXCEPT !.reads = Append(@, r),
                     !.i = @ + 1,
                     !.out = IF confirmed THEN r ELSE <<>>,
                     !.done = confirmed \/ call.i + 1 = call.in.num_checks]

\* the read of the initial balance
ArrivalInitialRead ==
    /\ invocation.of = "_wait_for_asset_arrival"
    /\ ~invocation.done
    /\ invocation.reads = <<>>
    /\ \E r \in BalanceReads : invocation' = InitialRead(invocation, r)
    /\ UNCHANGED <<sel, dep, DRY_RUN, active_trades, task, active_operations,
                   xfer, STABILITY_CYCLES, analyzer, cycles, scanner,
                   balance_manager, trade_log, cache>>

\* one pass of the loop
ArrivalCheck ==
    /\ invocation.of = "_wait_for_asset_arrival"
    /\ ~invocation.done
    /\ invocation.reads # <<>>
    /\ \E r \in BalanceReads : invocation' = Check(invocation, r)
    /\ UNCHANGED <<sel, dep, DRY_RUN, active_trades, task, active_operations,
                   xfer, STABILITY_CYCLES, analyzer, cycles, scanner,
                   balance_manager, trade_log, cache>>

\* a call of _wait_for_asset_arrival about to read the initial balance
ArrivalInit ==
    /\ Parked
    /\ STABILITY_CYCLES = 1
    /\ analyzer = AnalyzerIdle
    /\ cycles = <<>>
    /\ scanner = ScannerIdle
    /\ balance_manager = BalanceManagerIdle
    /\ trade_log = TradeLogIdle
    /\ cache = CacheIdle
    /\ \E expected \in 0..MaxArrivalBalance, num_checks \in 1..MaxChecks :
          invocation = [of |-> "_wait_for_asset_arrival",
                        in |-> [expected |-> expected,
                                num_checks |-> num_checks],
                        initial |-> <<>>, i |-> 0, reads |-> <<>>,
                        out |-> <<>>, done |-> FALSE]

ArrivalNext == ArrivalInitialRead \/ ArrivalCheck

ArrivalSpec == ArrivalInit /\ [][ArrivalNext]_vars

\* C30: _wait_for_asset_arrival reports success only if a balance read of
\* its loop succeeded and showed current - initial >= expected within the
\* epsilon, initial being the balance read once before the first check; a
\* failed read never changes that baseline and never counts as arrival.
C30_SuccessOnlyOnObservedIncrease ==
    LET reads == invocation.reads
        last  == reads[Len(reads)]
    IN  /\ reads # <<>> => invocation.initial = reads[1]
        /\ invocation.out # <<>>
               => /\ invocation.done
                  /\ Len(reads) >= 2
                  /\ reads[1] # <<>>
                  /\ last # <<>>
                  /\ invocation.out = last
                  /\ last[1] - reads[1][1]
                         >= invocation.in.expected
                                - DECIMAL_COMPARISON_EPSILON
        /\ (Len(reads) >= 2 /\ last = <<>>) => invocation.out = <<>>

\* a wait that started from a balance above zero, had a failed read in its
\* loop and then confirmed the arrival of more than the epsilon
C30_ArrivalAfterFailedRead ==
    /\ invocation.done
    /\ invocation.out # <<>>
    /\ Len(invocation.reads) = 3
    /\ invocation.reads[1] = <<1>>
    /\ invocation.reads[2] = <<>>
    /\ invocation.in.expected = 2
    /\ invocation.out = <<3>>

(***************************************************************************)
(* execute_arbitrage with the arrival wait of its transfer leg spelled     *)
(* out: the wait runs as the invocation record of _wait_for_asset_arrival  *)
(* while the execution is suspended at it; when the wait returns the       *)
(* record keeps, as out, the number of checks made and how the wait ended. *)
(***************************************************************************)
\* the withdrawal fees charged in the base asset, in units of the amounts
WithdrawalFeesNative == {0, 1}

\* the call at 4944: the expected arrival is the amount bought less the
\* withdrawal fee charged in the base asset
ArrivalBegin(t) ==
    /\ task[t].pc = "arrival_wait"
    /\ invocation.of = ""
    /\ \E fee \in WithdrawalFeesNative, num_checks \in 1..MaxChecks :
          invocation' = [of |-> "_wait_for_asset_arrival",
                         in |-> [expected |-> task[t].amount - fee,
                                 num_checks |-> num_checks],
                         initial |-> <<>>, i |-> 0, reads |-> <<>>,
                         out |-> <<>>, done |-> FALSE]
    /\ UNCHANGED <<sel, dep, DRY_RUN, active_trades, task, active_operations,
                   xfer, STABILITY_CYCLES, analyzer, cycles, scanner,
                   balance_manager, trade_log, cache>>

\* the checks the wait made
Polls(call) == IF call.reads = <<>> THEN 0 ELSE Len(call.reads) - 1

\* how the wait ended, as execute_arbitrage tells it
ArrivalOutcome(call) ==
    IF call.out # <<>> THEN "arrived"
    ELSE IF call.initial = <<>> THEN "no_initial_balance"
    ELSE "timeout"

\* the wait returns and execute_arbitrage checks what it returned
ArrivalReturn(t) ==
    /\ task[t].pc = "arrival_wait"
    /\ invocation.of = "_wait_for_asset_arrival"
    /\ invocation.done
    /\ Step(t, ArrivalWait(task[t], ArrivalOutcome(invocation)))
    /\ invocation' = [CallIdle EXCEPT
                          !.out = <<Polls(invocation),
                                    ArrivalOutcome(invocation)>>]
    /\ UNCHANGED <<sel, dep, DRY_RUN, active_operations, xfer,
                   STABILITY_CYCLES, analyzer, cycles, scanner,
                   balance_manager, trade_log, cache>>

\* the steps of the wait of invocation t
Waiting(t) ==
    \/ ArrivalBegin(t)
    \/ ArrivalInitialRead
    \/ ArrivalCheck
    \/ ArrivalReturn(t)

WaitNext ==
    \/ Invoke(<<"exec", 1>>, ConcurrentEnv)
    \/ BuyBalance(<<"exec", 1>>, ConcurrentEnv)
    \/ Convert(<<"exec", 1>>, ConcurrentEnv)
    \/ PostConvert(<<"exec", 1>>, ConcurrentEnv)
    \/ JitFunding(<<"exec", 1>>)
    \/ FundTrading(<<"exec", 1>>, ConcurrentEnv)
    \/ Buy(<<"exec", 1>>, ConcurrentEnv)
    \/ BuyObserve(<<"exec", 1>>, ConcurrentEnv)
    \/ OpenTransferLeg(<<"exec", 1>>)
    \/ PrepareWithdrawalAccount(<<"exec", 1>>, ConcurrentEnv)
    \/ DepAttempt1(<<"exec", 1>>, ConcurrentEnv.responses)
    \/ DepAttempt2(<<"exec", 1>>, ConcurrentEnv.responses)
    \/ DepAttempt3(<<"exec", 1>>, ConcurrentEnv.responses)
    \/ DepRefetch(<<"exec", 1>>, ConcurrentEnv.responses)
    \/ DepositAddress(<<"exec", 1>>)
    \/ Withdraw(<<"exec", 1>>, ConcurrentEnv)
    \/ Waiting(<<"exec", 1>>)
    \/ FundSell(<<"exec", 1>>, ConcurrentEnv)
    \/ PreSell(<<"exec", 1>>, ConcurrentEnv)
    \/ Sell(<<"exec", 1>>, ConcurrentEnv)
    \/ SellObserve(<<"exec", 1>>, ConcurrentEnv)

\* every balance read and every sleep of the wait completes: the reads run
\* under the client's request timeout
WaitSpec ==
    /\ Init
    /\ [][WaitNext]_vars
    /\ WF_vars(Waiting(<<"exec", 1>>))

\* C31: the arrival wait always terminates; it makes at most
\* floor(max_wait / check_interval) + 1 polls, a wait that ends without an
\* observed sufficient increase fails, and the execution is then in a
\* TRANSFER_LEG_FAILED_* state (JIT_FUNDING_FAILED_* for quote funding)
\* without having placed the order that follows.
C31_WaitEndsAndFailsTheLeg ==
    /\ [](invocation.of = "_wait_for_asset_arrival"
              => Polls(invocation) <= invocation.in.num_checks)
    /\ [][(invocation.of = "_wait_for_asset_arrival" /\ invocation'.of = ""
             /\ invocation.out = <<>>)
          => /\ task'[<<"exec", 1>>].status
                   = "TRANSFER_LEG_FAILED_NOT_ARRIVED"
             /\ task'[<<"exec", 1>>].pc = "returned"]_vars
    /\ [](\A t \in Tasks :
            /\ task[t].status = "TRANSFER_LEG_FAILED_NOT_ARRIVED"
                  => \A i \in DOMAIN task[t].legs :
                         task[t].legs[i] # "sell_submitted"
            /\ task[t].status \in {"JIT_FUNDING_FAILED_BALANCE_CHECK",
                                   "JIT_FUNDING_FAILED_TRANSFER_INIT",
                                   "JIT_FUNDING_FAILED_INSUFFICIENT_POST_WAIT"}
                  => /\ task[t].pc = "returned"
                     /\ \A i \in DOMAIN task[t].legs :
                            task[t].legs[i] # "buy_submitted")
    /\ (invocation.of = "_wait_for_asset_arrival") ~> (invocation.of = "")

\* a live execution whose wait used up its three checks on balance reads
\* that showed too little, and which ended as not arrived
C31_ThreeChecksThenFailed ==
    \E t \in Tasks :
        /\ ~DRY_RUN
        /\ task[t].status = "TRANSFER_LEG_FAILED_NOT_ARRIVED"
        /\ task[t].pc = "returned"
        /\ invocation.of = ""
        /\ invocation.out = <<MaxChecks, "timeout">>

(***************************************************************************)
(* The arrival wait next to the destination account.  The call starts once *)
(* the transfer is initiated; the venue credits the expected amount at one *)
(* moment of its choice while the wait runs, and every balance read        *)
(* succeeds and returns what the account holds.  The invocation record     *)
(* carries, besides the fields of the wait, account, the free balance of   *)
(* the destination account, and credited, whether the amount has arrived.  *)
(***************************************************************************)
\* bound: the free balance of the destination account before the transfer
MaxAccountBefore == 2

\* the transferred amounts, above the epsilon
CreditedAmounts == {2, 3}

\* the venue credits the transferred amount
Credit ==
    /\ invocation.of = "_wait_for_asset_arrival"
    /\ ~invocation.done
    /\ ~invocation.credited
    /\ invocation' = [invocation EXCEPT !.account = @ + invocation.in.expected,
                                        !.credited = TRUE]
    /\ UNCHANGED <<sel, dep, DRY_RUN, active_trades, task, active_operations,
                   xfer, STABILITY_CYCLES, analyzer, cycles, scanner,
                   balance_manager, trade_log, cache>>

\* the read of the initial balance, which succeeds
AccountInitialRead ==
    /\ invocation.of = "_wait_for_asset_arrival"
    /\ ~invocation.done
    /\ invocation.reads = <<>>
    /\ invocation' = InitialRead(invocation, <<invocation.account>>)
    /\ UNCHANGED <<sel, dep, DRY_RUN, active_trades, task, active_operations,
                   xfer, STABILITY_CYCLES, analyzer, cycles, scanner,
                   balance_manager, trade_log, cache>>

\* one pass of the loop, whose balance read succeeds
AccountCheck ==
    /\ invocation.of = "_wait_for_asset_arrival"
    /\ ~invocation.done
    /\ invocation.reads # <<>>
    /\ invocation' = Check(invocation, <<invocation.account>>)
    /\ UNCHANGED <<sel, dep, DRY_RUN, active_trades, task, active_operations,
                   xfer, STABILITY_CYCLES, analyzer, cycles, scanner,
                   balance_manager, trade_log, cache>>

\* a call of _wait_for_asset_arrival right after the transfer was initiated
CreditInit ==
    /\ Parked
    /\ STABILITY_CYCLES = 1
    /\ analyzer = AnalyzerIdle
    /\ cycles = <<>>
    /\ scanner = ScannerIdle
    /\ balance_manager = BalanceManagerIdle
    /\ trade_log = TradeLogIdle
    /\ cache = CacheIdle
    /\ \E expected \in CreditedAmounts, num_checks \in 1..MaxChecks,
          account \in 0..MaxAccountBefore :
          invocation = [of |-> "_wait_for_asset_arrival",
                        in |-> [expected |-> expected,
                                num_checks |-> num_checks],
                        initial |-> <<>>, i |-> 0, reads |-> <<>>,
                        out |-> <<>>, done |-> FALSE,
                        account |-> account, credited |-> FALSE]

CreditNext == Credit \/ AccountInitialRead \/ AccountCheck

CreditSpec == CreditInit /\ [][CreditNext]_vars

\* C32: when the expected amount is credited to the destination account
\* after the transfer was initiated and before the wait is over, before or
\* after the wait read its initial balance, and the balance reads succeed,
\* the arrival wait succeeds.
C32_CreditedAmountConfirmed ==
    (invocation.done /\ invocation.credited) => invocation.out # <<>>

(***************************************************************************)
(* Executor._fetch_order_with_retry.  What one call of fetch_order gives   *)
(* is "None", the name of the exception it raised, or the status of the    *)
(* order it returned, in lower case.  The invocation is a                  *)
(* record [of, in, attempt, seen, out, done]: in the max_retries of the    *)
(* call, attempt the loop index, seen what the fetches gave, in order, out *)
(* <<>> for None or <<order>> for the order returned.                      *)
(***************************************************************************)
\* bound: max_retries
MaxRetries == 4

\* the statuses of a fetched order; the last has no status field
OrderStatuses ==
    {"closed", "canceled", "open", "partially_filled", "expired", ""}

\* the exceptions fetch_order raises
FetchOrderErrors == {"OrderNotFound", "NetworkError", "Exception"}

\* what one fetch_order gives
FetchOrderResults ==
    {"None"} \cup FetchOrderErrors \cup OrderStatuses

\* a loop that takes every status for an open one
AnyStatusOpen(order_status) == TRUE

\* order_status == 'open' or 'partially' in order_status
StillOpen(order_status) ==
    order_status \in {"open", "partially_filled"}

\* one pass of the loop on what its fetch gave: the call returns, or goes on
\* to the next attempt; after the last attempt it returns None
FetchAttempt(call, r) ==
    LET last     == call.attempt = call.in.max_retries - 1
        seen     == [call EXCEPT !.seen = Append(@, r)]
        returned(order) == [seen EXCEPT !.out = order, !.done = TRUE]
        next     == IF last THEN returned(<<>>)
                    ELSE [seen EXCEPT !.attempt = @ + 1]
    IN  IF r = "None" THEN next
        ELSE IF r = "OrderNotFound"
        THEN IF call.attempt >= 1 THEN returned(<<>>) ELSE next
        ELSE IF r \in FetchOrderErrors THEN next
        ELSE IF r \in {"closed", "canceled"} THEN returned(<<r>>)
        ELSE IF StillOpen(r)
        THEN IF last THEN returned(<<r>>) ELSE next
        ELSE returned(<<r>>)

\* one attempt of the call
FetchOrder ==
    /\ invocation.of = "_fetch_order_with_retry"
    /\ ~invocation.done
    /\ \E r \in FetchOrderResults : invocation' = FetchAttempt(invocation, r)
    /\ UNCHANGED <<sel, dep, DRY_RUN, active_trades, task, active_operations,
                   xfer, STABILITY_CYCLES, analyzer, cycles, scanner,
                   balance_manager, trade_log, cache>>

\* a call of _fetch_order_with_retry
FetchInit ==
    /\ Parked
    /\ STABILITY_CYCLES = 1
    /\ analyzer = AnalyzerIdle
    /\ cycles = <<>>
    /\ scanner = ScannerIdle
    /\ balance_manager = BalanceManagerIdle
    /\ trade_log = TradeLogIdle
    /\ cache = CacheIdle
    /\ \E max_retries \in 1..MaxRetries :
          invocation = [of |-> "_fetch_order_with_retry",
                        in |-> [max_retries |-> max_retries],
                        attempt |-> 0, seen |-> <<>>, out |-> <<>>,
                        done |-> FALSE]

FetchNext == FetchOrder

FetchSpec == FetchInit /\ [][FetchNext]_vars

\* the fetch gave an order
IsOrder(r) == r \in OrderStatuses

\* the fetch gave an order in a terminal status
Terminal(r) == IsOrder(r) /\ r \notin {"open", "partially_filled"}

\* the fetch gave an order that is open or partially filled
Open(r) == r \in {"open", "partially_filled"}

\* C33: _fetch_order_with_retry returns the order at the first attempt that
\* observes a terminal status (closed, canceled or another status that is
\* not open), without a further fetch, and never makes more than
\* max_retries fetch attempts.
C33_ReturnsAtFirstTerminalStatus ==
    LET seen == invocation.seen
    IN  /\ Len(seen) <= invocation.in.max_retries
        /\ \A i \in DOMAIN seen :
              Terminal(seen[i])
                  => /\ i = Len(seen)
                     /\ invocation.done
                     /\ invocation.out = <<seen[i]>>

\* two failed attempts, then an order that expired, returned at once with an
\* attempt to spare
C33_ExpiredAtThirdAttempt ==
    /\ invocation.in.max_retries > 3
    /\ invocation.done
    /\ invocation.seen = <<"NetworkError", "open", "expired">>
    /\ invocation.out = <<"expired">>

\* C34: the first OrderNotFound of a call is followed by one more fetch
\* attempt, where one is left, and the call gives up with no result on the
\* second OrderNotFound, whatever errors came before.
C34_OrderNotFoundGetsOneGraceRetry ==
    LET seen  == invocation.seen
        notfound == {i \in DOMAIN seen : seen[i] = "OrderNotFound"}
    IN  /\ \A i \in notfound :
              (/\ \A j \in notfound : i <= j
               /\ i < invocation.in.max_retries
               /\ invocation.done)
                  => Len(seen) > i
        /\ Cardinality(notfound) <= 2
        /\ Cardinality(notfound) = 2
               => /\ invocation.done
                  /\ invocation.out = <<>>
                  /\ seen[Len(seen)] = "OrderNotFound"

\* C35: when the call uses up its attempts without a terminal status and
\* some attempt observed the order open or partially filled, it returns the
\* last open state it observed, whatever the last attempt gave.
C35_ExhaustionReturnsLastOpenState ==
    LET seen == invocation.seen
        open == {i \in DOMAIN seen : Open(seen[i])}
    IN  (/\ invocation.done
         /\ Len(seen) = invocation.in.max_retries
         /\ open # {}
         /\ \A i \in DOMAIN seen :
               ~Terminal(seen[i]) /\ seen[i] # "OrderNotFound")
            => \E i \in open :
                  /\ \A j \in open : j <= i
                  /\ invocation.out = <<seen[i]>>

RESERVE_BUFFER_USD == 5

\* Config.TRANSFER_FEE_BUFFER_USD, 1.0
TRANSFER_FEE_BUFFER_USD == 5

\* Config.MIN_REMAINING_USD_TO_LEAVE_ON_EX, 0.2
MIN_REMAINING_USD_TO_LEAVE_ON_EX == 1

\* bound: amount_usdt_needed_on_target
MaxNeeded == 2

\* the venues of all_balances, in the order of the dict
FundingVenues == <<"binance", "kucoin", "mexc">>

\* the free USDT a venue holds: none, and amounts around the two thresholds
FreeAmounts == {0, 6, 7, 8, 11, 12}

\* amount_to_request_pre_fee
AmountToRequestPreFee(amount_usdt_needed_on_target) ==
    amount_usdt_needed_on_target + TRANSFER_FEE_BUFFER_USD

\* free - Config.MIN_REMAINING_USD_TO_LEAVE_ON_EX >= amount_to_request_pre_fee
FreeCovers(free, amount_to_request_pre_fee) ==
    free - MIN_REMAINING_USD_TO_LEAVE_ON_EX >= amount_to_request_pre_fee

\* potential_usdt_sources: the preferred source first, then the other
\* venues in the order of all_balances, the venue to fund never
PotentialUsdtSources(exchange_id_to_fund, amount, all_balances, preferred) ==
    LET request == AmountToRequestPreFee(amount)
        First(v) == /\ v = preferred
                    /\ v # exchange_id_to_fund
                    /\ FreeCovers(all_balances[v], request)
        Other(v) == /\ v # exchange_id_to_fund
                    /\ v # preferred
                    /\ FreeCovers(all_balances[v], request)
    IN  SelectSeq(FundingVenues, First) \o SelectSeq(FundingVenues, Other)

\* the first source a transfer from which is initiated
DirectSource(sources, reachable) ==
    LET ok == {i \in DOMAIN sources : sources[i] \in reachable}
    IN  IF ok = {} THEN <<>>
        ELSE <<sources[CHOOSE i \in ok : \A j \in ok : i <= j]>>

\* ensure_usdt_for_trade: a direct transfer returns True; without one the
\* result is that of the conversion of other assets
EnsureUsdtForTrade ==
    /\ invocation.of = "ensure_usdt_for_trade"
    /\ ~invocation.done
    /\ \E converted \in BOOLEAN :
          LET in      == invocation.in
              sources == PotentialUsdtSources(in.exchange_id_to_fund,
                                              in.amount, in.all_balances,
                                              in.preferred)
              direct  == DirectSource(sources, in.reachable)
          IN  invocation' =
                  [invocation EXCEPT
                      !.out = [sources |-> sources, direct |-> direct,
                               ret |-> direct # <<>> \/ converted],
                      !.done = TRUE]
    /\ UNCHANGED <<sel, dep, DRY_RUN, active_trades, task, active_operations,
                   xfer, STABILITY_CYCLES, analyzer, cycles, scanner,
                   balance_manager, trade_log, cache>>

\* a call of ensure_usdt_for_trade, with the default preferred source
EnsureInit ==
    /\ Parked
    /\ STABILITY_CYCLES = 1
    /\ analyzer = AnalyzerIdle
    /\ cycles = <<>>
    /\ scanner = ScannerIdle
    /\ balance_manager = BalanceManagerIdle
    /\ trade_log = TradeLogIdle
    /\ cache = CacheIdle
    /\ \E target \in {"binance", "kucoin", "mexc"}, amount \in 1..MaxNeeded,
          balances \in [{"binance", "kucoin", "mexc"} -> FreeAmounts],
          reachable \in SUBSET {"binance", "kucoin", "mexc"} :
          invocation = [of |-> "ensure_usdt_for_trade",
                        in |-> [exchange_id_to_fund |-> target,
                                amount |-> amount,
                                all_balances |-> balances,
                                preferred |-> "binance",
                                reachable |-> reachable],
                        out |-> <<>>, done |-> FALSE]

EnsureNext == EnsureUsdtForTrade

EnsureSpec == EnsureInit /\ [][EnsureNext]_vars

\* the direct transfer came from another venue than the one to fund
FromAnotherVenue(call) ==
    call.out.direct[1] # call.in.exchange_id_to_fund

\* C37: ensure_usdt_for_trade initiates a direct USDT transfer only from a
\* venue other than the one to fund whose free USDT less RESERVE_BUFFER is
\* at least needed_on_target + TRANSFER_FEE_BUFFER.
C37_DirectSourceCoversNeedAndReserve ==
    (invocation.done /\ invocation.out.direct # <<>>)
        => /\ FromAnotherVenue(invocation)
           /\ invocation.in.all_balances[invocation.out.direct[1]]
                  - RESERVE_BUFFER_USD
                  >= invocation.in.amount + TRANSFER_FEE_BUFFER_USD

\* ---------------------------------------------------------------------
\* Rebalancer._internal_transfer_if_needed and _execute_internal_transfer

\* bound: the largest amount required in the target account
MaxRequired == 3

\* how the two purposes map to account types on the exchange
AccountMappings == {"no_transfer_support", "missing_type", "same_type",
                    "two_types"}

\* what exchange.transfer does
TransferCallOutcomes == {"ok", "BadRequest", "InsufficientFunds", "Exception"}

\* the verification after the transfer skipped: a submitted transfer counts
\* as success
SubmittedCounts(final_bal_in_target, required_amount_in_target_account) ==
    TRUE

\* a balance read (None or an amount) covers the required amount
Sufficient(bal, required_amount_in_target_account) ==
    /\ bal # <<>>
    /\ bal[1] >= required_amount_in_target_account - DECIMAL_COMPARISON_EPSILON

\* the verification after the transfer: the target account read again
VerifiedInTarget(final_bal_in_target, required_amount_in_target_account) ==
    Sufficient(final_bal_in_target, required_amount_in_target_account)

\* _execute_internal_transfer: the transfer call unless DRY_RUN, then the
\* verification
ExecuteInternalTransfer(in) ==
    IF in.dry_run \/ in.transfer = "ok"
    THEN [ret |-> VerifiedInTarget(in.final_bal_in_target, in.required),
          target_reads |-> <<in.target_bal, in.final_bal_in_target>>,
          transfers |-> IF in.dry_run THEN 0 ELSE 1]
    ELSE [ret |-> FALSE, target_reads |-> <<in.target_bal>>, transfers |-> 1]

\* _internal_transfer_if_needed: the result, the reads of the target
\* account in order, and the number of exchange.transfer calls
InternalTransferIfNeeded(in) ==
    LET none == [ret |-> FALSE, target_reads |-> <<>>, transfers |-> 0]
        read == [ret |-> Sufficient(in.target_bal, in.required),
                 target_reads |-> <<in.target_bal>>, transfers |-> 0]
    IN  CASE in.accounts = "no_transfer_support" -> read
          [] in.accounts = "missing_type" -> none
          [] in.accounts = "same_type" -> read
          [] OTHER ->
                IF in.target_bal = <<>> THEN read
                ELSE IF Sufficient(in.target_bal, in.required) THEN read
                ELSE LET amount_to_transfer == in.required - in.target_bal[1]
                     IN  IF amount_to_transfer <= DECIMAL_COMPARISON_EPSILON
                         THEN [read EXCEPT !.ret = TRUE]
                         ELSE IF amount_to_transfer < in.min_transfer
                         THEN read
                         ELSE IF \/ in.source_bal = <<>>
                                 \/ in.source_bal[1] < amount_to_transfer
                         THEN [read EXCEPT !.ret = FALSE]
                         ELSE ExecuteInternalTransfer(in)

InternalTransfer ==
    /\ invocation.of = "_internal_transfer_if_needed"
    /\ ~invocation.done
    /\ invocation' = [invocation EXCEPT
                         !.out = InternalTransferIfNeeded(invocation.in),
                         !.done = TRUE]
    /\ UNCHANGED <<sel, dep, DRY_RUN, active_trades, task, active_operations,
                   xfer, STABILITY_CYCLES, analyzer, cycles, scanner,
                   balance_manager, trade_log, cache>>

\* a call of _internal_transfer_if_needed: the account mapping, the amounts
\* and what the exchange answers to each request
InternalInit ==
    /\ Parked
    /\ STABILITY_CYCLES = 1
    /\ analyzer = AnalyzerIdle
    /\ cycles = <<>>
    /\ scanner = ScannerIdle
    /\ balance_manager = BalanceManagerIdle
    /\ trade_log = TradeLogIdle
    /\ cache = CacheIdle
    /\ \E accounts \in AccountMappings, required \in 2..MaxRequired,
          min_transfer \in {1, 3}, dry_run \in BOOLEAN,
          target_bal \in BalanceReads, source_bal \in BalanceReads,
          final_bal_in_target \in BalanceReads,
          transfer \in TransferCallOutcomes :
          invocation = [of |-> "_internal_transfer_if_needed",
                        in |-> [accounts |-> accounts, required |-> required,
                                min_transfer |-> min_transfer,
                                dry_run |-> dry_run,
                                target_bal |-> target_bal,
                                source_bal |-> source_bal,
                                final_bal_in_target |-> final_bal_in_target,
                                transfer |-> transfer],
                        out |-> <<>>, done |-> FALSE]

InternalNext == InternalTransfer

InternalSpec == InternalInit /\ [][InternalNext]_vars

\* the successful reads among the reads of the target account, in order
RECURSIVE SuccessfulReads(_)
SuccessfulReads(reads) ==
    IF reads = <<>> THEN <<>>
    ELSE IF Head(reads) = <<>> THEN SuccessfulReads(Tail(reads))
    ELSE <<Head(reads)[1]>> \o SuccessfulReads(Tail(reads))

\* C38: _internal_transfer_if_needed reports success only if its most recent
\* successful read of the target account's free balance is at least the
\* required amount, within the comparison epsilon; when both purposes map to
\* the same account type it issues no transfer call and its result is
\* whether the target balance is sufficient.
C38_SuccessOnlyOnSufficientTargetRead ==
    (invocation.of = "_internal_transfer_if_needed" /\ invocation.done)
        => LET seen == SuccessfulReads(invocation.out.target_reads)
           IN  /\ invocation.out.ret
                    => /\ seen # <<>>
                       /\ seen[Len(seen)] >= invocation.in.required
                              - DECIMAL_COMPARISON_EPSILON
               /\ invocation.in.accounts = "same_type"
                    => /\ invocation.out.transfers = 0
                       /\ invocation.out.ret
                              = Sufficient(invocation.in.target_bal,
                                           invocation.in.required)

\* a transfer was made and the target account then held the required amount
C38_TransferredAndVerified ==
    /\ invocation.of = "_internal_transfer_if_needed"
    /\ invocation.done
    /\ invocation.out.transfers = 1
    /\ invocation.out.ret
    /\ Len(invocation.out.target_reads) = 2

\* the call in slot x holds a registration: it passed _start_operation and
\* has not returned
Registered(x) == xfer[x].pc \notin {"idle", "returned"}

\* C39: every operation registered by transfer_asset_between_exchanges is
\* out of active_operations when that call returns, whatever the outcome of
\* the transfer, so that no operation outlives the call that registered it;
\* a call rejected as a duplicate leaves active_operations, and with it the
\* operation of the earlier call, as it was.
C39_OperationEndsWithItsCall ==
    /\ [](\A k \in DOMAIN active_operations :
             \E x \in Xfers : Registered(x) /\ XferKey(xfer[x]) = k)
    /\ [][\A x \in Xfers :
             /\ (Registered(x) /\ xfer'[x].pc = "returned")
                    => ~IsOperationActive(active_operations', XferKey(xfer[x]))
             /\ (/\ ~Registered(x)
                 /\ xfer'[x] # xfer[x]
                 /\ xfer'[x].pc = "returned"
                 /\ IsOperationActive(active_operations, XferKey(xfer'[x])))
                    => active_operations' = active_operations]_vars

\* a call whose withdrawal was submitted has returned and its operation is
\* gone; the call rejected as its duplicate made no venue call
C39_SubmittedAndDuplicateRejected ==
    \E x, y \in Xfers :
        /\ x # y
        /\ xfer[x].pc = "returned"
        /\ xfer[x].ret = "True"
        /\ "withdraw" \in xfer[x].calls
        /\ ~IsOperationActive(active_operations, XferKey(xfer[x]))
        /\ xfer[y].pc = "returned"
        /\ xfer[y].ret = "False"
        /\ xfer[y].calls = {}
        /\ XferKey(xfer[y]) = XferKey(xfer[x])

====
